---- MODULE Spec2Model ----
(***************************************************************************)
(* Model of the lead pipeline of ihale-mcp: GooglePlacesClient.search_leads *)
(* (geocode, paged text search, bounded-concurrency detail enrichment),    *)
(* find_business_leads (normalisation, geographic gate, attribute filters, *)
(* deduplication) and the address helpers of google_sheets_writer.         *)
(*                                                                         *)
(* Text is modelled as a sequence of characters.  An ASCII character is a  *)
(* one-character string; a Turkish letter is written as a digraph:         *)
(*   "u:" "U:" "o:" "O:"  u/o with diaeresis      "s," "S,"  s with cedilla *)
(*   "c," "C,"  c with cedilla    "g^" "G^"  g with breve                  *)
(*   "i-"  dotless small i        "I."  dotted capital I                   *)
(*   ".^"  the combining dot above (U+0307) that lower() leaves after "I." *)
(* Python's None is the sentinel NONE.                                     *)
(***************************************************************************)
EXTENDS Integers, Sequences, FiniteSets, TLC

NONE == <<"<None>">>

\* Python truthiness of an Optional[str]: None and "" are falsy.
Truthy(s) == s # NONE /\ s # <<>>

----------------------------------------------------------------------------
(* Characters and the str methods the helpers use.                         *)

Digits == {"0", "1", "2", "3", "4", "5", "6", "7", "8", "9"}

AsciiLower == {"a","b","c","d","e","f","g","h","i","j","k","l","m",
               "n","o","p","q","r","s","t","u","v","w","x","y","z"}

AsciiUpper == {"A","B","C","D","E","F","G","H","I","J","K","L","M",
               "N","O","P","Q","R","S","T","U","V","W","X","Y","Z"}

TurkishLetters == {"u:", "U:", "o:", "O:", "s,", "S,", "c,", "C,",
                   "g^", "G^", "i-", "I."}

IsDigit(c) == c \in Digits

\* str.strip() and str.split() whitespace, and the regex class \s.
IsSpace(c) == c = " "

\* The regex class \w of a str pattern: letters, digits and underscore.
IsWordChar(c) ==
    c \in Digits \cup AsciiLower \cup AsciiUpper \cup TurkishLetters \cup {"_"}

\* str.lower() of one character; the dotted capital I lowers to two code points.
LowerChar(c) ==
    CASE c = "A" -> <<"a">> [] c = "B" -> <<"b">> [] c = "C" -> <<"c">>
      [] c = "D" -> <<"d">> [] c = "E" -> <<"e">> [] c = "F" -> <<"f">>
      [] c = "G" -> <<"g">> [] c = "H" -> <<"h">> [] c = "I" -> <<"i">>
      [] c = "J" -> <<"j">> [] c = "K" -> <<"k">> [] c = "L" -> <<"l">>
      [] c = "M" -> <<"m">> [] c = "N" -> <<"n">> [] c = "O" -> <<"o">>
      [] c = "P" -> <<"p">> [] c = "Q" -> <<"q">> [] c = "R" -> <<"r">>
      [] c = "S" -> <<"s">> [] c = "T" -> <<"t">> [] c = "U" -> <<"u">>
      [] c = "V" -> <<"v">> [] c = "W" -> <<"w">> [] c = "X" -> <<"x">>
      [] c = "Y" -> <<"y">> [] c = "Z" -> <<"z">>
      [] c = "U:" -> <<"u:">> [] c = "O:" -> <<"o:">> [] c = "S," -> <<"s,">>
      [] c = "C," -> <<"c,">> [] c = "G^" -> <<"g^">>
      [] c = "I." -> <<"i", ".^">>
      [] OTHER -> <<c>>

RECURSIVE Lower(_)
Lower(s) == IF s = <<>> THEN <<>> ELSE LowerChar(Head(s)) \o Lower(Tail(s))

RECURSIVE LStrip(_)
LStrip(s) == IF s # <<>> /\ IsSpace(Head(s)) THEN LStrip(Tail(s)) ELSE s

RECURSIVE RStrip(_)
RStrip(s) ==
    IF s # <<>> /\ IsSpace(s[Len(s)]) THEN RStrip(SubSeq(s, 1, Len(s) - 1)) ELSE s

\* str.strip()
Strip(s) == RStrip(LStrip(s))

\* s.startswith(p)
StartsWith(s, p) == Len(p) <= Len(s) /\ SubSeq(s, 1, Len(p)) = p

\* "sub in s"
RECURSIVE Contains(_, _)
Contains(s, sub) ==
    IF StartsWith(s, sub) THEN TRUE
    ELSE IF s = <<>> THEN FALSE
    ELSE Contains(Tail(s), sub)

\* s.replace(old, new) for a non-empty old: leftmost, non-overlapping.
RECURSIVE Replace(_, _, _)
Replace(s, old, new) ==
    IF s = <<>> THEN <<>>
    ELSE IF StartsWith(s, old)
         THEN new \o Replace(SubSeq(s, Len(old) + 1, Len(s)), old, new)
         ELSE <<Head(s)>> \o Replace(Tail(s), old, new)

\* s.split(sep) for a one-character sep: never empty, "" splits to [""].
RECURSIVE Split(_, _)
Split(s, sep) ==
    IF \E i \in 1..Len(s) : s[i] = sep
    THEN LET i == CHOOSE k \in 1..Len(s) :
                      s[k] = sep /\ \A j \in 1..(k - 1) : s[j] # sep
         IN  <<SubSeq(s, 1, i - 1)>> \o Split(SubSeq(s, i + 1, Len(s)), sep)
    ELSE <<s>>

\* len(s.split()): the number of whitespace-separated tokens.
RECURSIVE TokenCount(_)
TokenCount(s) ==
    LET t == LStrip(s)
    IN  IF t = <<>> THEN 0
        ELSE IF \E i \in 1..Len(t) : IsSpace(t[i])
             THEN LET i == CHOOSE k \in 1..Len(t) :
                               IsSpace(t[k]) /\ \A j \in 1..(k - 1) : ~IsSpace(t[j])
                  IN  1 + TokenCount(SubSeq(t, i, Len(t)))
             ELSE 1

\* Five digits start at position i of s.
FiveDigitsAt(s, i) == i + 4 <= Len(s) /\ \A j \in i..(i + 4) : IsDigit(s[j])

\* re.search(r'\d{5}', s) is not None
HasFiveDigits(s) == \E i \in 1..Len(s) : FiveDigitsAt(s, i)

\* re.sub(r'\d{5}\s*', '', s): every run of five digits goes, with the
\* whitespace after it.
RECURSIVE SubFiveDigits(_)
SubFiveDigits(s) ==
    IF s = <<>> THEN <<>>
    ELSE IF FiveDigitsAt(s, 1)
         THEN SubFiveDigits(LStrip(SubSeq(s, 6, Len(s))))
         ELSE <<Head(s)>> \o SubFiveDigits(Tail(s))

\* re.sub(r'^\d{5}\s*', '', s): only a leading run of five digits goes.
SubLeadingFiveDigits(s) ==
    IF FiveDigitsAt(s, 1) THEN LStrip(SubSeq(s, 6, Len(s))) ELSE s

----------------------------------------------------------------------------
(* The province registry and the address helpers of google_sheets_writer.  *)

Turkiye == <<"T","u:","r","k","i","y","e">>
turkey == <<"t","u","r","k","e","y">>

\* The dict in insertion order: <<prefix, province>>.
POSTAL_CODE_TO_IL ==
    <<
       <<<<"0","1">>, <<"a","d","a","n","a">>>>,
       <<<<"0","2">>, <<"a","d","i","y","a","m","a","n">>>>,
       <<<<"0","3">>, <<"a","f","y","o","n","k","a","r","a","h","i","s","a","r">>>>,
       <<<<"0","4">>, <<"a","g","r","i">>>>,
       <<<<"0","5">>, <<"a","m","a","s","y","a">>>>,
       <<<<"0","6">>, <<"a","n","k","a","r","a">>>>,
       <<<<"0","7">>, <<"a","n","t","a","l","y","a">>>>,
       <<<<"0","8">>, <<"a","r","t","v","i","n">>>>,
       <<<<"0","9">>, <<"a","y","d","i","n">>>>,
       <<<<"1","0">>, <<"b","a","l","i","k","e","s","i","r">>>>,
       <<<<"1","1">>, <<"b","i","l","e","c","i","k">>>>,
       <<<<"1","2">>, <<"b","i","n","g","o","l">>>>,
       <<<<"1","3">>, <<"b","i","t","l","i","s">>>>,
       <<<<"1","4">>, <<"b","o","l","u">>>>,
       <<<<"1","5">>, <<"b","u","r","d","u","r">>>>,
       <<<<"1","6">>, <<"b","u","r","s","a">>>>,
       <<<<"1","7">>, <<"c","a","n","a","k","k","a","l","e">>>>,
       <<<<"1","8">>, <<"c","a","n","k","i","r","i">>>>,
       <<<<"1","9">>, <<"c","o","r","u","m">>>>,
       <<<<"2","0">>, <<"d","e","n","i","z","l","i">>>>,
       <<<<"2","1">>, <<"d","i","y","a","r","b","a","k","i","r">>>>,
       <<<<"2","2">>, <<"e","d","i","r","n","e">>>>,
       <<<<"2","3">>, <<"e","l","a","z","i","g">>>>,
       <<<<"2","4">>, <<"e","r","z","i","n","c","a","n">>>>,
       <<<<"2","5">>, <<"e","r","z","u","r","u","m">>>>,
       <<<<"2","6">>, <<"e","s","k","i","s","e","h","i","r">>>>,
       <<<<"2","7">>, <<"g","a","z","i","a","n","t","e","p">>>>,
       <<<<"2","8">>, <<"g","i","r","e","s","u","n">>>>,
       <<<<"2","9">>, <<"g","u","m","u","s","h","a","n","e">>>>,
       <<<<"3","0">>, <<"h","a","k","k","a","r","i">>>>,
       <<<<"3","1">>, <<"h","a","t","a","y">>>>,
       <<<<"3","2">>, <<"i","s","p","a","r","t","a">>>>,
       <<<<"3","3">>, <<"m","e","r","s","i","n">>>>,
       <<<<"3","4">>, <<"i","s","t","a","n","b","u","l">>>>,
       <<<<"3","5">>, <<"i","z","m","i","r">>>>,
       <<<<"3","6">>, <<"k","a","r","s">>>>,
       <<<<"3","7">>, <<"k","a","s","t","a","m","o","n","u">>>>,
       <<<<"3","8">>, <<"k","a","y","s","e","r","i">>>>,
       <<<<"3","9">>, <<"k","i","r","k","l","a","r","e","l","i">>>>,
       <<<<"4","0">>, <<"k","i","r","s","e","h","i","r">>>>,
       <<<<"4","1">>, <<"k","o","c","a","e","l","i">>>>,
       <<<<"4","2">>, <<"k","o","n","y","a">>>>,
       <<<<"4","3">>, <<"k","u","t","a","h","y","a">>>>,
       <<<<"4","4">>, <<"m","a","l","a","t","y","a">>>>,
       <<<<"4","5">>, <<"m","a","n","i","s","a">>>>,
       <<<<"4","6">>, <<"k","a","h","r","a","m","a","n","m","a","r","a","s">>>>,
       <<<<"4","7">>, <<"m","a","r","d","i","n">>>>,
       <<<<"4","8">>, <<"m","u","g","l","a">>>>,
       <<<<"4","9">>, <<"m","u","s">>>>,
       <<<<"5","0">>, <<"n","e","v","s","e","h","i","r">>>>,
       <<<<"5","1">>, <<"n","i","g","d","e">>>>,
       <<<<"5","2">>, <<"o","r","d","u">>>>,
       <<<<"5","3">>, <<"r","i","z","e">>>>,
       <<<<"5","4">>, <<"s","a","k","a","r","y","a">>>>,
       <<<<"5","5">>, <<"s","a","m","s","u","n">>>>,
       <<<<"5","6">>, <<"s","i","i","r","t">>>>,
       <<<<"5","7">>, <<"s","i","n","o","p">>>>,
       <<<<"5","8">>, <<"s","i","v","a","s">>>>,
       <<<<"5","9">>, <<"t","e","k","i","r","d","a","g">>>>,
       <<<<"6","0">>, <<"t","o","k","a","t">>>>,
       <<<<"6","1">>, <<"t","r","a","b","z","o","n">>>>,
       <<<<"6","2">>, <<"t","u","n","c","e","l","i">>>>,
       <<<<"6","3">>, <<"s","a","n","l","i","u","r","f","a">>>>,
       <<<<"6","4">>, <<"u","s","a","k">>>>,
       <<<<"6","5">>, <<"v","a","n">>>>,
       <<<<"6","6">>, <<"y","o","z","g","a","t">>>>,
       <<<<"6","7">>, <<"z","o","n","g","u","l","d","a","k">>>>,
       <<<<"6","8">>, <<"a","k","s","a","r","a","y">>>>,
       <<<<"6","9">>, <<"b","a","y","b","u","r","t">>>>,
       <<<<"7","0">>, <<"k","a","r","a","m","a","n">>>>,
       <<<<"7","1">>, <<"k","i","r","i","k","k","a","l","e">>>>,
       <<<<"7","2">>, <<"b","a","t","m","a","n">>>>,
       <<<<"7","3">>, <<"s","i","r","n","a","k">>>>,
       <<<<"7","4">>, <<"b","a","r","t","i","n">>>>,
       <<<<"7","5">>, <<"a","r","d","a","h","a","n">>>>,
       <<<<"7","6">>, <<"i","g","d","i","r">>>>,
       <<<<"7","7">>, <<"y","a","l","o","v","a">>>>,
       <<<<"7","8">>, <<"k","a","r","a","b","u","k">>>>,
       <<<<"7","9">>, <<"k","i","l","i","s">>>>,
       <<<<"8","0">>, <<"o","s","m","a","n","i","y","e">>>>,
       <<<<"8","1">>, <<"d","u","z","c","e">>>>
    >>

\* POSTAL_CODE_TO_IL.get(prefix)
RegistryGet(prefix) ==
    IF \E k \in 1..Len(POSTAL_CODE_TO_IL) : POSTAL_CODE_TO_IL[k][1] = prefix
    THEN POSTAL_CODE_TO_IL[CHOOSE k \in 1..Len(POSTAL_CODE_TO_IL) :
                               POSTAL_CODE_TO_IL[k][1] = prefix][2]
    ELSE NONE

_normalize_il_name(il_name) ==
    Replace(Replace(Replace(Replace(Replace(Replace(
        Lower(Strip(il_name)),
        <<"i-">>, <<"i">>), <<"g^">>, <<"g">>), <<"u:">>, <<"u">>),
        <<"s,">>, <<"s">>), <<"o:">>, <<"o">>), <<"c,">>, <<"c">>)

\* A match of \b(\d{5})\b starts at position i of address.
PostalMatchAt(address, i) ==
    /\ FiveDigitsAt(address, i)
    /\ (i = 1 \/ ~IsWordChar(address[i - 1]))
    /\ (i + 4 = Len(address) \/ ~IsWordChar(address[i + 5]))

_extract_postal_code_from_address(address) ==
    IF \E i \in 1..Len(address) : PostalMatchAt(address, i)
    THEN LET i == CHOOSE k \in 1..Len(address) :
                      /\ PostalMatchAt(address, k)
                      /\ \A j \in 1..(k - 1) : ~PostalMatchAt(address, j)
         IN  SubSeq(address, i, i + 4)
    ELSE NONE

_get_il_from_postal_code(postal_code) ==
    IF Len(postal_code) >= 2 THEN RegistryGet(SubSeq(postal_code, 1, 2)) ELSE NONE

\* [p.strip() for p in s.split(sep)]
StripParts(s, sep) == LET ps == Split(s, sep) IN [k \in 1..Len(ps) |-> Strip(ps[k])]

_extract_il_from_location_text(location_text) ==
    IF ~Truthy(location_text) THEN NONE
    ELSE LET loc_clean == Strip(Replace(Replace(location_text, Turkiye, <<>>),
                                        turkey, <<>>))
             parts == StripParts(loc_clean, ",")
         IN  Strip(parts[Len(parts)])

\* Position in the registry of the first province whose normalised name is n, or 0.
RegistryNormalized ==
    [k \in 1..Len(POSTAL_CODE_TO_IL) |-> _normalize_il_name(POSTAL_CODE_TO_IL[k][2])]

RegistryFind(n) ==
    IF \E k \in 1..Len(RegistryNormalized) : RegistryNormalized[k] = n
    THEN CHOOSE k \in 1..Len(RegistryNormalized) :
             /\ RegistryNormalized[k] = n
             /\ \A j \in 1..(k - 1) : RegistryNormalized[j] # n
    ELSE 0

\* The last comma-separated part with the country name and postal codes
\* removed, or the part before it when that leaves nothing.
ProvinceCandidate(address) ==
    LET parts == StripParts(address, ",")
        last0 == Strip(parts[Len(parts)])
        last1 == Strip(Replace(Replace(last0, Turkiye, <<>>), turkey, <<>>))
        last2 == Strip(SubFiveDigits(last1))
        second_last == IF Len(parts) >= 2 THEN Strip(parts[Len(parts) - 1]) ELSE <<>>
    IN  IF last2 = <<>> /\ Len(parts) >= 2
           /\ ~HasFiveDigits(second_last) /\ TokenCount(second_last) <= 3
        THEN second_last
        ELSE last2

_parse_il_from_address_only(address) ==
    IF ~Truthy(address) THEN NONE
    ELSE LET postal_code == _extract_postal_code_from_address(address)
             postal_il == IF Truthy(postal_code)
                          THEN _get_il_from_postal_code(postal_code) ELSE NONE
             last_part == ProvinceCandidate(address)
             parsed_il == IF Contains(last_part, <<"/">>)
                          THEN StripParts(last_part, "/")[2]
                          ELSE last_part
         IN  IF Truthy(postal_il) THEN postal_il
             ELSE IF Truthy(parsed_il)
                  THEN LET k == RegistryFind(_normalize_il_name(Strip(parsed_il)))
                       IN  IF k # 0 THEN POSTAL_CODE_TO_IL[k][2] ELSE Strip(parsed_il)
                  ELSE NONE

\* The postal code of the address names a province other than il.
\* (_is_ilce_valid_for_il returns False.)
PostalContradicts(il, address) ==
    LET postal_code == IF Truthy(address)
                       THEN _extract_postal_code_from_address(address) ELSE NONE
        postal_il == IF Truthy(postal_code)
                     THEN _get_il_from_postal_code(postal_code) ELSE NONE
    IN  /\ Truthy(postal_il)
        /\ _normalize_il_name(il) # _normalize_il_name(postal_il)

_is_ilce_valid_for_il(ilce, il, address) ==
    IF ~Truthy(ilce) \/ ~Truthy(il) THEN TRUE
    ELSE ~PostalContradicts(il, address)

\* parsed_il and parsed_ilce of _parse_il_ilce, before the validation.
ParsedIlIlce(address) ==
    LET parts == StripParts(address, ",")
        last_part == parts[Len(parts)]
        slash == Contains(last_part, <<"/">>)
        ilce_il == StripParts(last_part, "/")
        parsed_il == IF slash THEN ilce_il[2] ELSE last_part
        from_slash == IF slash THEN Strip(SubLeadingFiveDigits(ilce_il[1])) ELSE NONE
        second_last == IF Len(parts) >= 2 THEN Strip(parts[Len(parts) - 1]) ELSE NONE
        parsed_ilce == IF /\ ~Truthy(from_slash)
                          /\ Len(parts) >= 2
                          /\ ~HasFiveDigits(second_last)
                          /\ TokenCount(second_last) <= 3
                       THEN second_last
                       ELSE from_slash
    IN  <<parsed_il, parsed_ilce>>

\* ValidateIlIlce left out: the province and the district are returned as
\* they were parsed.
ValidateIlIlceKeepsParsed(location_il, postal_il, parsed) ==
    parsed

\* ValidateIlIlce that keeps the parsed district when the declared province
\* replaces the parsed one.
ValidateIlIlceKeepsDistrict(location_il, postal_il, parsed) ==
    LET parsed_il == parsed[1]
        loc_il_norm == _normalize_il_name(location_il)
    IN  IF ~Truthy(location_il) THEN parsed
        ELSE IF Truthy(postal_il)
        THEN IF Truthy(parsed_il) /\ loc_il_norm = _normalize_il_name(parsed_il)
             THEN parsed
             ELSE <<location_il, parsed[2]>>
        ELSE IF Truthy(parsed_il)
             THEN LET parsed_il_norm == _normalize_il_name(parsed_il)
                  IN  IF /\ ~Contains(parsed_il_norm, loc_il_norm)
                         /\ ~Contains(loc_il_norm, parsed_il_norm)
                      THEN <<location_il, parsed[2]>>
                      ELSE parsed
             ELSE <<location_il, parsed[2]>>

\* The validation of _parse_il_ilce against the declared province:
\* <<final_il, final_ilce>> before the last check of the district.
ValidateIlIlce(location_il, postal_il, parsed) ==
    LET parsed_il == parsed[1]
        loc_il_norm == _normalize_il_name(location_il)
    IN  IF ~Truthy(location_il) THEN parsed
        ELSE IF Truthy(postal_il)
        THEN IF loc_il_norm # _normalize_il_name(postal_il)
             THEN <<location_il, NONE>>
             ELSE IF Truthy(parsed_il)
                  THEN IF loc_il_norm # _normalize_il_name(parsed_il)
                       THEN <<location_il, parsed[2]>>
                       ELSE parsed
                  ELSE <<location_il, parsed[2]>>
        ELSE IF Truthy(parsed_il)
             THEN LET parsed_il_norm == _normalize_il_name(parsed_il)
                  IN  IF /\ ~Contains(parsed_il_norm, loc_il_norm)
                         /\ ~Contains(loc_il_norm, parsed_il_norm)
                      THEN <<location_il, NONE>>
                      ELSE parsed
             ELSE <<location_il, parsed[2]>>

\* The resolver: <<il, ilce>> for an address and a location text.
_parse_il_ilce(address, location_text) ==
    LET location_il == IF Truthy(location_text)
                       THEN _extract_il_from_location_text(location_text) ELSE NONE
    IN  IF ~Truthy(address) THEN <<location_il, NONE>>
        ELSE LET postal_code == _extract_postal_code_from_address(address)
                 postal_il == IF Truthy(postal_code)
                              THEN _get_il_from_postal_code(postal_code) ELSE NONE
                 final == ValidateIlIlce(location_il, postal_il, ParsedIlIlce(address))
             IN  IF /\ Truthy(final[1])
                    /\ Truthy(final[2])
                    /\ ~_is_ilce_valid_for_il(final[2], final[1], address)
                 THEN <<final[1], NONE>>
                 ELSE final

----------------------------------------------------------------------------
(* The geographic gate of find_business_leads.pass_filters.                *)

\* PostalGate without the comparison of the two provinces.
PostalGateAnyKnown(loc_il_norm, postal_code) ==
    Truthy(_get_il_from_postal_code(postal_code))

\* PostalGate that lets a postal code of no province through.
PostalGateUnknownPasses(loc_il_norm, postal_code) ==
    LET postal_il == _get_il_from_postal_code(postal_code)
    IN  IF Truthy(postal_il)
        THEN loc_il_norm = _normalize_il_name(postal_il)
        ELSE TRUE

\* The gate when the address carries a postal code.
PostalGate(loc_il_norm, postal_code) ==
    LET postal_il == _get_il_from_postal_code(postal_code)
    IN  IF Truthy(postal_il)
        THEN loc_il_norm = _normalize_il_name(postal_il)
        ELSE FALSE

\* The gate when the address carries no postal code.
TextGate(loc_il_norm, address) ==
    LET parsed_il_raw == _parse_il_from_address_only(address)
    IN  IF Truthy(parsed_il_raw)
        THEN loc_il_norm = _normalize_il_name(parsed_il_raw)
        ELSE Contains(Lower(address), loc_il_norm)

\* TRUE iff pass_filters does not return False in its province block.
GeoGate(location_il, address) ==
    IF Truthy(location_il) /\ Truthy(address)
    THEN LET loc_il_norm == _normalize_il_name(location_il)
             postal_code == _extract_postal_code_from_address(address)
         IN  IF Truthy(postal_code)
             THEN PostalGate(loc_il_norm, postal_code)
             ELSE TextGate(loc_il_norm, address)
    ELSE TRUE

----------------------------------------------------------------------------
(* Leads, attribute filters and deduplication of find_business_leads.      *)
(* A raw result is a record                                                *)
(*   [name, formatted_address, place_id, types, rating,                    *)
(*    user_ratings_total, business_status, details]                        *)
(* whose details block is [present, phone, website, open_now]; geometry    *)
(* and the international phone number are carried through unread and are   *)
(* left out.  A missing text field is NONE, a missing number is NoneNum,   *)
(* a missing open_now is "none".                                           *)

\* Python's None for a rating or a rating count (both are never negative).
NoneNum == 0 - 1

NoDetails == [present |-> FALSE, phone |-> NONE, website |-> NONE, open_now |-> "none"]

\* str.upper() of one character.
UpperChar(c) ==
    CASE c = "a" -> "A" [] c = "b" -> "B" [] c = "c" -> "C" [] c = "d" -> "D"
      [] c = "e" -> "E" [] c = "f" -> "F" [] c = "g" -> "G" [] c = "h" -> "H"
      [] c = "i" -> "I" [] c = "j" -> "J" [] c = "k" -> "K" [] c = "l" -> "L"
      [] c = "m" -> "M" [] c = "n" -> "N" [] c = "o" -> "O" [] c = "p" -> "P"
      [] c = "q" -> "Q" [] c = "r" -> "R" [] c = "s" -> "S" [] c = "t" -> "T"
      [] c = "u" -> "U" [] c = "v" -> "V" [] c = "w" -> "W" [] c = "x" -> "X"
      [] c = "y" -> "Y" [] c = "z" -> "Z"
      [] c = "u:" -> "U:" [] c = "o:" -> "O:" [] c = "s," -> "S,"
      [] c = "c," -> "C," [] c = "g^" -> "G^" [] c = "i-" -> "I"
      [] OTHER -> c

Upper(s) == [k \in 1..Len(s) |-> UpperChar(s[k])]

\* The entry of leads_out built from one raw result.
ToLead(r) ==
    LET det == IF r.details.present THEN r.details ELSE NoDetails
    IN  [name |-> r.name,
         formatted_address |-> r.formatted_address,
         place_id |-> r.place_id,
         types |-> r.types,
         rating |-> r.rating,
         user_ratings_total |-> r.user_ratings_total,
         business_status |-> r.business_status,
         phone |-> det.phone,
         website |-> det.website,
         open_now |-> det.open_now]

\* The filter arguments of find_business_leads: a list that is None or
\* empty is the empty set.
NoFilters ==
    [min_rating |-> NoneNum, min_user_ratings_total |-> NoneNum,
     types_include |-> {}, types_exclude |-> {},
     require_phone_or_website |-> FALSE, only_open_now |-> "none",
     business_status_in |-> {}]

\* AttributeFilters that lets a lead without rating or rating count through
\* a numeric minimum.
AttributeFiltersMissingPasses(item, f) ==
    /\ f.min_rating # NoneNum =>
           (item.rating = NoneNum \/ ~(item.rating < f.min_rating))
    /\ f.min_user_ratings_total # NoneNum =>
           (item.user_ratings_total = NoneNum
             \/ ~(item.user_ratings_total < f.min_user_ratings_total))
    /\ f.types_include # {} =>
           item.types \cap {Lower(t) : t \in f.types_include} # {}
    /\ f.types_exclude # {} =>
           item.types \cap {Lower(t) : t \in f.types_exclude} = {}
    /\ f.require_phone_or_website =>
           (Truthy(item.phone) \/ Truthy(item.website))
    /\ f.only_open_now = "true" => item.open_now = "true"
    /\ f.business_status_in # {} =>
           LET bs == Upper(IF Truthy(item.business_status)
                           THEN item.business_status ELSE <<>>)
           IN  bs \in {Upper(st) : st \in f.business_status_in}

\* TRUE iff pass_filters does not return False after its province block.
AttributeFilters(item, f) ==
    /\ f.min_rating # NoneNum =>
           ~(item.rating = NoneNum \/ item.rating < f.min_rating)
    /\ f.min_user_ratings_total # NoneNum =>
           ~(item.user_ratings_total = NoneNum
             \/ item.user_ratings_total < f.min_user_ratings_total)
    /\ f.types_include # {} =>
           item.types \cap {Lower(t) : t \in f.types_include} # {}
    /\ f.types_exclude # {} =>
           item.types \cap {Lower(t) : t \in f.types_exclude} = {}
    /\ f.require_phone_or_website =>
           (Truthy(item.phone) \/ Truthy(item.website))
    /\ f.only_open_now = "true" => item.open_now = "true"
    /\ f.business_status_in # {} =>
           LET bs == Upper(IF Truthy(item.business_status)
                           THEN item.business_status ELSE <<>>)
           IN  bs \in {Upper(st) : st \in f.business_status_in}

pass_filters(item, location_il, f) ==
    /\ GeoGate(location_il, item.formatted_address)
    /\ AttributeFilters(item, f)

\* DedupeKey that compares names and addresses as they are spelt.
DedupeKeyUnfolded(x, dedupe_by) ==
    IF dedupe_by = "name_address"
    THEN <<IF Truthy(x.name) THEN x.name ELSE <<>>,
           IF Truthy(x.formatted_address) THEN x.formatted_address ELSE <<>>>>
    ELSE x.place_id

\* DedupeKey that tells leads without place_id apart by their names.
DedupeKeyMissingByName(x, dedupe_by) ==
    IF dedupe_by = "name_address"
    THEN <<Lower(Strip(IF Truthy(x.name) THEN x.name ELSE <<>>)),
           Lower(Strip(IF Truthy(x.formatted_address)
                       THEN x.formatted_address ELSE <<>>))>>
    ELSE IF x.place_id = NONE THEN <<x.place_id, x.name>> ELSE x.place_id

\* The dedup key of a lead.
DedupeKey(x, dedupe_by) ==
    IF dedupe_by = "name_address"
    THEN <<Lower(Strip(IF Truthy(x.name) THEN x.name ELSE <<>>)),
           Lower(Strip(IF Truthy(x.formatted_address)
                       THEN x.formatted_address ELSE <<>>))>>
    ELSE x.place_id

\* DedupeFrom with the test of the key inverted.
RECURSIVE DedupeFromInverted(_, _, _, _, _)
DedupeFromInverted(filtered, i, seen, unique, dedupe_by) ==
    IF i > Len(filtered) THEN unique
    ELSE LET key == DedupeKey(filtered[i], dedupe_by)
         IN  IF key \notin seen
             THEN DedupeFromInverted(filtered, i + 1, seen \cup {key}, unique, dedupe_by)
             ELSE DedupeFromInverted(filtered, i + 1, seen,
                                     Append(unique, filtered[i]), dedupe_by)

\* The dedup loop from position i on, with the keys seen and the leads kept.
RECURSIVE DedupeFrom(_, _, _, _, _)
DedupeFrom(filtered, i, seen, unique, dedupe_by) ==
    IF i > Len(filtered) THEN unique
    ELSE LET key == DedupeKey(filtered[i], dedupe_by)
         IN  IF key \in seen
             THEN DedupeFrom(filtered, i + 1, seen, unique, dedupe_by)
             ELSE DedupeFrom(filtered, i + 1, seen \cup {key},
                             Append(unique, filtered[i]), dedupe_by)

Dedupe(filtered, dedupe_by) == DedupeFrom(filtered, 1, {}, <<>>, dedupe_by)

\* filtered = [x for x in leads_out if pass_filters(x)]
FilterLeads(leads_out, location_il, f) ==
    SelectSeq(leads_out, LAMBDA x : pass_filters(x, location_il, f))

\* location_il of find_business_leads: the declared province.
LocationIl(loc) ==
    IF Truthy(loc) THEN _extract_il_from_location_text(loc) ELSE NONE

\* FilterPipeline with the dedup before the gate and the attribute filters.
FilterPipelineDedupeFirst(leads_out, loc, f, dedupe_by) ==
    FilterLeads(Dedupe(leads_out, dedupe_by), LocationIl(loc), f)

\* The filter pipeline: the gate and the attribute filters, then the dedup.
FilterPipeline(leads_out, loc, f, dedupe_by) ==
    Dedupe(FilterLeads(leads_out, LocationIl(loc), f), dedupe_by)

----------------------------------------------------------------------------
(* STATE: one run of find_business_leads over GooglePlacesClient.          *)

VARIABLES
    pc,             \* position of the run
    location_text,  \* argument location_text
    limit,          \* argument limit, clamped at "start"
    include_details,\* argument include_details
    geocode_query,  \* the address parameter sent to the geocoder, or NONE
    geocoded,       \* search_leads: geocoded ("unset", "None" or "latlng")
    collected,      \* search_leads: the accumulator
    accumulated,    \* history: the results in the order the paged search appended them
    next_token,     \* search_leads: next_token
    page,           \* the text_search response being processed
    requests,       \* history: the text_search requests issued
    now,            \* clock, in tenths of a second
    token_at,       \* history: when next_token was received
    sleeps,         \* history: the asyncio.sleep calls made
    started,        \* enrichment: tasks that have run their first step
    task,           \* enrichment: state of enrich(collected[i])
    sem,            \* enrichment: value of the semaphore
    reordered,      \* history: a lookup completed before one of a lower index
    raw,            \* return value of search_leads
    out,            \* return value of find_business_leads
    probe,          \* input and result of a helper applied on its own
    call,           \* history: output and export arguments of the call, and the environment
    sheet           \* the spreadsheet: export attempts, rows appended, last failure

vars == <<pc, location_text, limit, include_details, geocode_query, geocoded, collected,
          accumulated, next_token, page, requests, now, token_at, sleeps,
          started, task, sem, reordered, raw, out, probe, call, sheet>>

searchVars == <<collected, accumulated, next_token, page, requests, now,
                token_at, sleeps>>
enrichVars == <<started, task, sem, reordered>>
argVars == <<location_text, limit, include_details>>
exportVars == <<call, sheet>>

----------------------------------------------------------------------------
(* Bounds of the model.                                                    *)

MaxLimit == 3       \* largest limit argument of a full run
MaxPageLen == 2     \* most results in one text_search response
MaxPages == 3       \* most text_search requests of a run
MaxMixed == 2       \* most results of a batch over the whole catalogue
MaxBatch == 6       \* most results of an enrichment batch taken on its own
MaxNoId == 1        \* most results without place_id in such a batch

(* Program constants.                                                      *)

LimitFloor == 1
LimitCap == 120
SixSlots == 5 + 1
SemaphoreSize == 5
InterPageDelay == 22    \* asyncio.sleep(2.2), in tenths of a second

----------------------------------------------------------------------------
(* Inputs.                                                                 *)

Samsun == <<"S","a","m","s","u","n">>
Malatya == <<"M","a","l","a","t","y","a">>
SamsunTurkiye == <<"S","a","m","s","u","n",","," ","T","u:","r","k","i","y","e">>
AtakumSamsun == <<"A","t","a","k","u","m",","," ","5","5","2","0","0"," ","S","a","m","s","u","n">>
MerkezMalatya == <<"M","e","r","k","e","z",","," ","M","a","l","a","t","y","a">>
Acme == <<"A","c","m","e">>
AcmeSpaced == <<" ","A","C","M","E"," ">>
Bayi == <<"B","a","y","i">>
Store == <<"s","t","o","r","e">>
Operational == <<"O","P","E","R","A","T","I","O","N","A","L">>
Phone == <<"0","3","6","2">>

RawA ==
    [name |-> Acme, formatted_address |-> AtakumSamsun, place_id |-> <<"p1">>,
     types |-> {Store}, rating |-> 45, user_ratings_total |-> 10,
     business_status |-> Operational, details |-> NoDetails]

\* The same place again, spelt differently.
RawA2 == [RawA EXCEPT !.name = AcmeSpaced]

\* A result of the neighbouring province.
RawB ==
    [name |-> Bayi, formatted_address |-> MerkezMalatya, place_id |-> <<"p2">>,
     types |-> {}, rating |-> NoneNum, user_ratings_total |-> NoneNum,
     business_status |-> NONE, details |-> NoDetails]

\* A result with neither identifier nor address.
RawC ==
    [name |-> Bayi, formatted_address |-> NONE, place_id |-> NONE,
     types |-> {}, rating |-> 30, user_ratings_total |-> 2,
     business_status |-> Operational, details |-> NoDetails]

\* Another place of the same province.
RawD ==
    [name |-> Bayi, formatted_address |-> Samsun, place_id |-> <<"p3">>,
     types |-> {}, rating |-> 30, user_ratings_total |-> 2,
     business_status |-> NONE, details |-> NoDetails]

Catalogue == {RawA, RawA2, RawB, RawC, RawD}

\* The details block the provider holds for a place: the first place has a
\* phone number and is open, any other has neither.
PlaceDetails(place_id) ==
    IF place_id = <<"p1">>
    THEN [present |-> TRUE, phone |-> Phone, website |-> NONE, open_now |-> "true"]
    ELSE [present |-> TRUE, phone |-> NONE, website |-> NONE, open_now |-> "none"]

\* Sequences over S of length at most n.
SeqsUpTo(S, n) == UNION {[1..k -> S] : k \in 0..n}

SamsunSpaced == <<" ">> \o Samsun \o <<" ">>

\* The location texts of a run.
PipelineLocations == {Samsun, SamsunSpaced, SamsunTurkiye, Malatya, <<>>}

\* The results a text_search page is drawn from.
PageCatalogue == {RawA, RawB, RawC}

\* The batches enrichment is run on: short ones over the whole catalogue,
\* and longer ones of one place with at most MaxNoId results without
\* identifier among them.
Batches ==
    SeqsUpTo(Catalogue, MaxMixed)
    \cup {b \in SeqsUpTo({RawA, RawC}, MaxBatch) :
             Cardinality({k \in 1..Len(b) : b[k] = RawC}) <= MaxNoId}

\* The location texts an enrichment batch is filtered for.
BatchLocations == {Samsun, Malatya}

PageTokens == {NONE, <<>>, <<"t","o","k">>}

ErrorStatuses == {"OVER_QUERY_LIMIT", "REQUEST_DENIED"}

----------------------------------------------------------------------------
(* Envelopes.  A return value is a record of one shape; a key the code     *)
(* does not set is flagged absent (has_leads, has_leads_raw) or empty.     *)

\* An f-string with one interpolated value.
Message(before, value, after) == [before |-> before, value |-> value, after |-> after]

NoMessage == Message("", <<>>, "")

\* The key google_sheets of the return value when it is not set.
NoAnnotation == [present |-> FALSE, ok |-> FALSE, auto_export |-> FALSE, error |-> "", rows_sent |-> 0]

NoEnvelope ==
    [returned |-> FALSE, error |-> FALSE, message |-> NoMessage,
     location_input |-> NONE, has_leads_raw |-> FALSE, leads_raw |-> <<>>,
     has_leads |-> FALSE, leads |-> <<>>, total |-> 0,
     filters |-> NoFilters, dedupe_by |-> "place_id",
     has_csv |-> FALSE, csv_rows |-> <<>>, google_sheets |-> NoAnnotation]

\* geocode: the address sent for a location text.
LocationQuery(loc) ==
    LET location_query == Strip(loc)
        low == Lower(location_query)
    IN  IF /\ location_query # <<>>
           /\ ~Contains(low, Lower(Turkiye))
           /\ ~Contains(low, turkey)
           /\ ~Contains(location_query, <<",">>)
           /\ TokenCount(location_query) <= 3
        THEN location_query \o <<",", " ">> \o Turkiye
        ELSE location_query

\* GeocodeFailure that echoes the text sent to the geocoder.
GeocodeFailureEchoQuery(loc) ==
    [NoEnvelope EXCEPT
        !.returned = TRUE, !.error = TRUE,
        !.message = Message("Konum geocode edilemedi: '", LocationQuery(loc), "'."),
        !.location_input = LocationQuery(loc)]

\* search_leads: the envelope of a failed geocode.
GeocodeFailure(loc) ==
    [NoEnvelope EXCEPT
        !.returned = TRUE, !.error = TRUE,
        !.message = Message("Konum geocode edilemedi: '", loc,
                            "'. Lutfen daha spesifik bir konum girin (orn: 'Samsun, Turkiye' veya 'Samsun Ilkadim')."),
        !.location_input = loc]

\* search_leads: the envelope of a failed text search.
ProviderError(status) ==
    [NoEnvelope EXCEPT
        !.returned = TRUE, !.error = TRUE,
        !.message = Message("Places API hatasi: ", <<status>>, "")]

\* search_leads: the envelope of a finished search.
SearchSuccess(coll) ==
    [NoEnvelope EXCEPT
        !.returned = TRUE, !.has_leads_raw = TRUE, !.leads_raw = coll,
        !.total = Len(coll)]

\* find_business_leads: the limit after clamping.
ClampLimit(l) == IF l < LimitFloor THEN LimitFloor ELSE IF l > LimitCap THEN LimitCap ELSE l

----------------------------------------------------------------------------
(* Output format and spreadsheet export of find_business_leads.            *)

\* The values of GOOGLE_SHEETS_AUTO_EXPORT tried: unset, an enabling value
\* with blanks and capitals, a value that does not enable.
AutoExportValues == {<<>>, <<" ","O","N"," ">>, <<"0">>}

\* auto_export: the environment value, stripped and lowered, is one of
\* "1", "true", "yes", "on".
AutoExport(env) ==
    Lower(Strip(env)) \in {<<"1">>, <<"t","r","u","e">>, <<"y","e","s">>, <<"o","n">>}

OutputFormats == {"json", "csv"}

\* How an export can end: rows appended, or an exception: no credentials
\* or spreadsheet id (GoogleSheetsAppender), no tab "Leads" (ensure_header,
\* append_rows), an error of the Sheets API.
ExportOutcomes == {"ok", "no_credentials", "no_sheet", "api_error"}

NoCall == [made |-> FALSE, output_format |-> "json", export_to_google_sheets |-> FALSE,
           env |-> <<>>]

NoSheet == [attempts |-> 0, rows |-> 0, error |-> ""]

\* OnExport without the except clause.
OnExportUncaught(outcome) == IF outcome = "ok" THEN "ok" ELSE "raise"

\* What the try block of the export comes to: "ok", the failure "caught",
\* or "raise" out of find_business_leads.
OnExport(outcome) == IF outcome = "ok" THEN "ok" ELSE "caught"

\* The branch output_format == "csv": the rows of unique instead of the list.
CsvReturn(unique, f, dedupe_by) ==
    [NoEnvelope EXCEPT
        !.returned = TRUE, !.has_csv = TRUE, !.csv_rows = unique,
        !.total = Len(unique), !.filters = f, !.dedupe_by = dedupe_by]

\* out["google_sheets"] after an export attempt.
Annotation(outcome, auto_export, rows_sent) ==
    IF outcome = "ok"
    THEN [present |-> TRUE, ok |-> TRUE, auto_export |-> auto_export, error |-> "",
          rows_sent |-> rows_sent]
    ELSE [present |-> TRUE, ok |-> FALSE, auto_export |-> auto_export, error |-> outcome,
          rows_sent |-> 0]

\* The spreadsheet after an export attempt of n rows.
Exported(sh, outcome, n) ==
    [attempts |-> sh.attempts + 1,
     rows |-> IF outcome = "ok" THEN sh.rows + n ELSE sh.rows,
     error |-> IF outcome = "ok" THEN "" ELSE outcome]

----------------------------------------------------------------------------
(* The run: find_business_leads calls search_leads, which geocodes, pages  *)
(* through the text search and enriches; the facade then filters.          *)

NoPage == [status |-> "", results |-> <<>>, next_page_token |-> NONE, dropped |-> 0]

NoProbe == [stage |-> "none"]

\* The filter arguments tried on a full run.
PipelineFilters ==
    {NoFilters,
     [NoFilters EXCEPT !.require_phone_or_website = TRUE],
     [NoFilters EXCEPT !.min_rating = 40]}

DedupeModes == {"place_id", "name_address"}

Init ==
    /\ pc = "start"
    /\ location_text \in PipelineLocations
    /\ limit \in 0..MaxLimit
    /\ include_details \in BOOLEAN
    /\ geocode_query = NONE
    /\ geocoded = "unset"
    /\ collected = <<>>
    /\ accumulated = <<>>
    /\ next_token = NONE
    /\ page = NoPage
    /\ requests = <<>>
    /\ now = 0
    /\ token_at = 0
    /\ sleeps = 0
    /\ started = 0
    /\ task = <<>>
    /\ sem = 0
    /\ reordered = FALSE
    /\ raw = NoEnvelope
    /\ out = NoEnvelope
    /\ probe = NoProbe
    /\ call = NoCall
    /\ sheet = NoSheet

\* find_business_leads clamps limit and calls search_leads, which sends the
\* geocode request.
Start ==
    /\ pc = "start"
    /\ limit' = ClampLimit(limit)
    /\ geocode_query' = LocationQuery(location_text)
    /\ pc' = "geocode"
    /\ UNCHANGED <<location_text, include_details, geocoded, searchVars,
                   enrichVars, raw, out, probe, exportVars>>

\* geocode returns: None unless the status is OK and there is a result.
Geocode ==
    /\ pc = "geocode"
    /\ \E status \in {"OK", "ZERO_RESULTS"}, has_results \in BOOLEAN :
          IF status # "OK" \/ ~has_results
          THEN /\ geocoded' = "None"
               /\ raw' = GeocodeFailure(location_text)
               /\ pc' = "returned"
          ELSE /\ geocoded' = "latlng"
               /\ raw' = raw
               /\ pc' = "loop"
    /\ UNCHANGED <<argVars, geocode_query, searchVars, enrichVars, out, probe, exportVars>>

\* What text_search may return: an error status, ZERO_RESULTS with no
\* result, or OK with a page of results; a token may come with either.
Responses ==
    {[status |-> st, results |-> <<>>, next_page_token |-> NONE] : st \in ErrorStatuses}
    \cup {[status |-> "ZERO_RESULTS", results |-> <<>>, next_page_token |-> t] :
             t \in PageTokens}
    \cup {[status |-> "OK", results |-> rs, next_page_token |-> t] :
             rs \in SeqsUpTo(PageCatalogue, MaxPageLen), t \in PageTokens}

\* StatusAborts that lets a quota error through.
StatusAbortsLenient(status) == status \notin {"OK", "ZERO_RESULTS", "OVER_QUERY_LIMIT"}

\* status not in ("OK", "ZERO_RESULTS")
StatusAborts(status) == status \notin {"OK", "ZERO_RESULTS"}

\* AtLimit off by one.
AtLimitPlusOne(coll, lim) == Len(coll) > lim

\* len(collected) >= limit
AtLimit(coll, lim) == Len(coll) >= lim

\* AfterPage without the sleep.
AfterPageNoSleep(token, coll, lim, status) ==
    IF ~Truthy(token) \/ AtLimit(coll, lim) \/ status = "ZERO_RESULTS"
    THEN "after_loop"
    ELSE "loop"

\* AfterPage that goes on whenever the accumulator is below limit, with or
\* without a token.
AfterPageIgnoresToken(token, coll, lim, status) ==
    IF AtLimit(coll, lim) \/ status = "ZERO_RESULTS"
    THEN "after_loop"
    ELSE "sleep"

\* Where the loop goes after a page: out of the loop, or on to the sleep.
AfterPage(token, coll, lim, status) ==
    IF ~Truthy(token) \/ AtLimit(coll, lim) \/ status = "ZERO_RESULTS"
    THEN "after_loop"
    ELSE "sleep"

\* The head of the while loop: the next text_search request goes out.
LoopHead ==
    /\ pc = "loop"
    /\ Len(requests) < MaxPages
    /\ IF ~AtLimit(collected, limit)
       THEN /\ requests' = Append(requests,
                   [pagetoken |-> next_token, at |-> now, token_at |-> token_at])
            /\ pc' = "text_search"
       ELSE /\ requests' = requests
            /\ pc' = "after_loop"
    /\ UNCHANGED <<argVars, geocode_query, geocoded, collected, accumulated, next_token,
                   page, now, token_at, sleeps, enrichVars, raw, out, probe, exportVars>>

\* text_search returns; any status but OK and ZERO_RESULTS ends the run.
TextSearch ==
    /\ pc = "text_search"
    /\ \E resp \in Responses :
          /\ page' = [status |-> resp.status, results |-> resp.results,
                      next_page_token |-> resp.next_page_token, dropped |-> 0]
          /\ IF StatusAborts(resp.status)
             THEN /\ raw' = ProviderError(resp.status)
                  /\ pc' = "returned"
             ELSE /\ raw' = raw
                  /\ pc' = "accumulate"
    /\ UNCHANGED <<argVars, geocode_query, geocoded, collected, accumulated, next_token,
                   requests, now, token_at, sleeps, enrichVars, out, probe, exportVars>>

\* One turn of the for loop over the page: append while below limit.
Accumulate ==
    /\ pc = "accumulate"
    /\ page.results # <<>>
    /\ ~AtLimit(collected, limit)
    /\ collected' = Append(collected, Head(page.results))
    /\ accumulated' = Append(accumulated, Head(page.results))
    /\ page' = [page EXCEPT !.results = Tail(page.results)]
    /\ UNCHANGED <<pc, argVars, geocode_query, geocoded, next_token, requests, now,
                   token_at, sleeps, enrichVars, raw, out, probe, exportVars>>

\* The for loop ends (page exhausted, or break at limit); the token is read
\* and the loop breaks or goes on to sleep.
PageEnd ==
    /\ pc = "accumulate"
    /\ page.results = <<>> \/ AtLimit(collected, limit)
    /\ next_token' = page.next_page_token
    /\ token_at' = now
    /\ page' = [page EXCEPT !.results = <<>>, !.dropped = Len(page.results)]
    /\ pc' = AfterPage(page.next_page_token, collected, limit, page.status)
    /\ UNCHANGED <<argVars, geocode_query, geocoded, collected, accumulated, requests,
                   now, sleeps, enrichVars, raw, out, probe, exportVars>>

\* await asyncio.sleep(2.2)
Sleep ==
    /\ pc = "sleep"
    /\ now' = now + InterPageDelay
    /\ sleeps' = sleeps + 1
    /\ pc' = "loop"
    /\ UNCHANGED <<argVars, geocode_query, geocoded, collected, accumulated, next_token,
                   page, requests, token_at, enrichVars, raw, out, probe, exportVars>>

----------------------------------------------------------------------------
(* Enrichment: asyncio.gather over enrich(it), behind Semaphore(5).  The    *)
(* tasks take their first step in list order; lookups complete in any      *)
(* order, and a waiting task may take a freed slot in any order.           *)

\* What a place_details call can come to: a payload with status OK and a
\* result, a payload with another status, a payload enrich cannot read
\* (not an object, or a result that is not one), or an exception
\* (transport error, timeout, invalid JSON).
LookupOutcomes == {"OK", "NOT_OK", "malformed", "exception"}

\* OnLookup without the except clause.
OnLookupUncaught(kind) ==
    CASE kind = "OK" -> "attach"
      [] kind = "NOT_OK" -> "swallow"
      [] OTHER -> "raise"

\* What enrich does with an outcome: "attach" the details, "swallow" the
\* failure, or "raise" out of the task.
OnLookup(kind) ==
    CASE kind = "OK" -> "attach"
      [] kind = "NOT_OK" -> "swallow"
      [] OTHER -> "swallow"

\* AttachDetails that moves the enriched result to the end of the list.
AttachDetailsAtEnd(coll, i, d) ==
    SubSeq(coll, 1, i - 1) \o SubSeq(coll, i + 1, Len(coll))
        \o <<[coll[i] EXCEPT !.details = d]>>

\* AttachDetails that writes the details to the first result of the list.
AttachDetailsToFirst(coll, i, d) == [coll EXCEPT ![1].details = d]

\* item["details"] = {...} on the result the task was created for.
AttachDetails(coll, i, d) == [coll EXCEPT ![i].details = d]

\* if include_details and collected: create the semaphore and the tasks;
\* otherwise search_leads returns at once.
EnrichBegin ==
    /\ pc = "after_loop"
    /\ IF include_details /\ collected # <<>>
       THEN /\ sem' = SemaphoreSize
            /\ task' = [i \in 1..Len(collected) |-> "new"]
            /\ started' = 0
            /\ raw' = raw
            /\ pc' = "gather"
       ELSE /\ raw' = SearchSuccess(collected)
            /\ pc' = "returned"
            /\ UNCHANGED <<sem, task, started, exportVars>>
    /\ UNCHANGED <<argVars, geocode_query, geocoded, searchVars, reordered, out, probe, exportVars>>

\* The first step of enrich(collected[i]): return without an identifier,
\* else enter the semaphore and send the lookup, or wait for a slot.
TaskStart ==
    /\ pc = "gather"
    /\ started < Len(collected)
    /\ LET i == started + 1
       IN  /\ started' = i
           /\ IF ~Truthy(collected[i].place_id)
              THEN /\ task' = [task EXCEPT ![i] = "skipped"]
                   /\ sem' = sem
              ELSE IF sem > 0
                   THEN /\ task' = [task EXCEPT ![i] = "inflight"]
                        /\ sem' = sem - 1
                   ELSE /\ task' = [task EXCEPT ![i] = "waiting"]
                        /\ sem' = sem
    /\ UNCHANGED <<pc, argVars, geocode_query, geocoded, searchVars, reordered, raw,
                   out, probe, exportVars>>

\* A waiting task gets a slot and sends its lookup.
TaskAcquire(i) ==
    /\ pc = "gather"
    /\ task[i] = "waiting"
    /\ sem > 0
    /\ sem' = sem - 1
    /\ task' = [task EXCEPT ![i] = "inflight"]
    /\ UNCHANGED <<pc, argVars, geocode_query, geocoded, searchVars, started,
                   reordered, raw, out, probe, exportVars>>

\* Release that gives the slot back only after a successful lookup.
ReleaseOnSuccessOnly(s, act) == IF act = "attach" THEN s + 1 ELSE s

\* The exit of "async with semaphore", whatever enrich did with the outcome.
Release(s, act) == s + 1

\* place_details returns or raises for task i; the slot is released.
TaskComplete(i) ==
    /\ pc = "gather"
    /\ task[i] = "inflight"
    /\ \E kind \in LookupOutcomes :
          LET act == OnLookup(kind)
          IN  /\ collected' = IF act = "attach"
                              THEN AttachDetails(collected, i,
                                                 PlaceDetails(collected[i].place_id))
                              ELSE collected
              /\ task' = [task EXCEPT ![i] = IF act = "attach" THEN "ok" ELSE "failed"]
              /\ pc' = IF act = "raise" THEN "raised" ELSE pc
              /\ sem' = Release(sem, act)
    /\ reordered' = (reordered \/ \E j \in 1..(i - 1) : task[j] \in {"waiting", "inflight"})
    /\ UNCHANGED <<argVars, geocode_query, geocoded, accumulated, next_token, page,
                   requests, now, token_at, sleeps, started, raw, out, probe, exportVars>>

TaskEnded(i) == task[i] \in {"ok", "failed", "skipped"}

\* gather returns once every task has ended; search_leads returns.
GatherDone ==
    /\ pc = "gather"
    /\ started = Len(collected)
    /\ \A i \in 1..Len(collected) : TaskEnded(i)
    /\ raw' = SearchSuccess(collected)
    /\ pc' = "returned"
    /\ UNCHANGED <<argVars, geocode_query, geocoded, searchVars, enrichVars, out, probe, exportVars>>

----------------------------------------------------------------------------
(* The facade after search_leads has returned.                             *)

\* leads_out
LeadsOut(leads_raw) == [k \in 1..Len(leads_raw) |-> ToLead(leads_raw[k])]

\* The success envelope of find_business_leads.
FacadeSuccess(unique, f, dedupe_by) ==
    [NoEnvelope EXCEPT
        !.returned = TRUE, !.has_leads = TRUE, !.leads = unique,
        !.total = Len(unique), !.filters = f, !.dedupe_by = dedupe_by]

\* What find_business_leads returns for a return value of search_leads.
FacadeReturn(r, loc, f, dedupe_by) ==
    IF r.error THEN r
    ELSE FacadeSuccess(FilterPipeline(LeadsOut(r.leads_raw), loc, f, dedupe_by),
                       f, dedupe_by)

\* find_business_leads from the return of search_leads to its result: the
\* error envelope is returned as it is; else the leads are filtered and
\* deduplicated, and the output format and the export follow.
Facade ==
    /\ pc = "returned"
    /\ \E f \in PipelineFilters, dedupe_by \in DedupeModes :
          out' = FacadeReturn(raw, location_text, f, dedupe_by)
    /\ pc' = "done"
    /\ UNCHANGED <<argVars, geocode_query, geocoded, searchVars, enrichVars, raw, probe, exportVars>>

\* The end of find_business_leads for a result without error: the csv
\* branch returns the rows and never reaches the export; otherwise the
\* export is attempted when the argument or the environment enables it, and
\* the list is returned with the annotation.
Deliver ==
    /\ pc = "done"
    /\ ~out.error
    /\ \E output_format \in OutputFormats, export_to_google_sheets \in BOOLEAN,
          env \in AutoExportValues, outcome \in ExportOutcomes :
          LET auto_export == AutoExport(env)
          IN  /\ call' = [made |-> TRUE, output_format |-> output_format,
                          export_to_google_sheets |-> export_to_google_sheets,
                          env |-> env]
              /\ IF output_format = "csv"
                 THEN /\ out' = CsvReturn(out.leads, out.filters, out.dedupe_by)
                      /\ sheet' = sheet
                      /\ pc' = "delivered"
                 ELSE IF export_to_google_sheets \/ auto_export
                 THEN /\ sheet' = Exported(sheet, outcome, Len(out.leads))
                      /\ IF OnExport(outcome) = "raise"
                         THEN /\ out' = out
                              /\ pc' = "raised"
                         ELSE /\ out' = [out EXCEPT !.google_sheets =
                                            Annotation(outcome, auto_export, Len(out.leads))]
                              /\ pc' = "delivered"
                 ELSE /\ out' = out
                      /\ sheet' = sheet
                      /\ pc' = "delivered"
    /\ UNCHANGED <<argVars, geocode_query, geocoded, searchVars, enrichVars, raw, probe>>

Next ==
    \/ Start
    \/ Geocode
    \/ LoopHead
    \/ TextSearch
    \/ Accumulate
    \/ PageEnd
    \/ Sleep
    \/ EnrichBegin
    \/ TaskStart
    \/ \E i \in 1..Len(task) : TaskAcquire(i)
    \/ \E i \in 1..Len(task) : TaskComplete(i)
    \/ GatherDone
    \/ Facade
    \/ Deliver

Spec == Init /\ [][Next]_vars

----------------------------------------------------------------------------
(* The stages of a run, each checked on its own.                           *)

\* The search stage: from the call to the end of the paging loop; the
\* facade returns what a failed search returned.
NextSearch ==
    \/ Start
    \/ Geocode
    \/ LoopHead
    \/ TextSearch
    \/ Accumulate
    \/ PageEnd
    \/ Sleep
    \/ EnrichBegin
    \/ Facade

SpecSearch == Init /\ [][NextSearch]_vars

\* The enrichment stage and the facade after it: from the end of the paging
\* loop, with any accumulator within limit, to the return of the facade.
InitEnrich ==
    /\ pc = "after_loop"
    /\ location_text \in BatchLocations
    /\ include_details \in BOOLEAN
    /\ collected \in Batches
    /\ limit = ClampLimit(Len(collected))
    /\ accumulated = collected
    /\ geocode_query = LocationQuery(location_text)
    /\ geocoded = "latlng"
    /\ next_token = NONE
    /\ page = NoPage
    /\ requests = <<>>
    /\ now = 0
    /\ token_at = 0
    /\ sleeps = 0
    /\ started = 0
    /\ task = <<>>
    /\ sem = 0
    /\ reordered = FALSE
    /\ raw = NoEnvelope
    /\ out = NoEnvelope
    /\ probe = NoProbe
    /\ call = NoCall
    /\ sheet = NoSheet

NextEnrich ==
    \/ EnrichBegin
    \/ TaskStart
    \/ \E i \in 1..Len(task) : TaskAcquire(i)
    \/ \E i \in 1..Len(task) : TaskComplete(i)
    \/ GatherDone
    \/ Facade

SpecEnrich == InitEnrich /\ [][NextEnrich]_vars

\* The event loop runs every task that can take a step, and every lookup
\* that was sent returns or fails.
FairEnrich ==
    /\ WF_vars(EnrichBegin)
    /\ WF_vars(TaskStart)
    /\ \A i \in 1..MaxBatch :
          /\ WF_vars(i <= Len(task) /\ TaskAcquire(i))
          /\ WF_vars(i <= Len(task) /\ TaskComplete(i))
    /\ WF_vars(GatherDone)

\* The batch on its own, up to the return of search_leads: batches of one
\* place, with and without identifier, for one location text.
InitEnrichLive ==
    /\ InitEnrich
    /\ location_text = Samsun
    /\ collected \in SeqsUpTo({RawA, RawC}, MaxBatch)

NextEnrichLive ==
    \/ EnrichBegin
    \/ TaskStart
    \/ \E i \in 1..Len(task) : TaskAcquire(i)
    \/ \E i \in 1..Len(task) : TaskComplete(i)
    \/ GatherDone

SpecEnrichLive == InitEnrichLive /\ [][NextEnrichLive]_vars /\ FairEnrich

----------------------------------------------------------------------------
(* The geographic gate on its own: pass_filters, with no attribute filter, *)
(* applied to a lead with a given address for a given location text.       *)

MaxSegments == 3    \* most comma-separated segments of an address

Merkez == <<"M","e","r","k","e","z">>
Atakum == <<"A","t","a","k","u","m">>
Postal55 == <<"5","5","2","0","0">>
Postal44 == <<"4","4","0","0","0">>
Postal00 == <<"0","0","1","0","0">>
SixDigits == <<"5","5","2","0","0","1">>

\* The segments addresses are made of: a district, a province, a postal
\* code (of the province, of another one, of none) before a province,
\* District/Province, the country name, a run of six digits, a segment of
\* four words, the empty segment.
GateSegments ==
    {Merkez, Atakum, Samsun, Malatya, Turkiye, SixDigits, <<>>}
    \cup {p \o <<" ">> \o Samsun : p \in {Postal55, Postal44, Postal00}}
    \cup {Atakum \o <<"/">> \o Samsun, Merkez \o <<"/">> \o Malatya}
    \cup {Merkez \o <<" ">> \o Atakum \o <<" ">> \o Merkez \o <<" ">> \o Samsun}

\* ", ".join(segs)
RECURSIVE JoinSegments(_)
JoinSegments(segs) ==
    IF Len(segs) = 0 THEN <<>>
    ELSE IF Len(segs) = 1 THEN segs[1]
    ELSE segs[1] \o <<",", " ">> \o JoinSegments(Tail(segs))

GateAddresses ==
    {NONE} \cup {JoinSegments(segs) : segs \in SeqsUpTo(GateSegments, MaxSegments)}

GateLocations ==
    {Samsun, Malatya, Atakum \o <<",", " ">> \o Samsun, SamsunTurkiye, <<>>}

\* A lead that has nothing but an address.
LeadAt(address) == [ToLead(RawC) EXCEPT !.formatted_address = address]

InitGate ==
    /\ pc = "probe"
    /\ location_text \in GateLocations
    /\ probe \in {[stage |-> "in", address |-> a, passes |-> FALSE] : a \in GateAddresses}
    /\ limit = LimitFloor
    /\ include_details = FALSE
    /\ geocode_query = NONE
    /\ geocoded = "unset"
    /\ collected = <<>>
    /\ accumulated = <<>>
    /\ next_token = NONE
    /\ page = NoPage
    /\ requests = <<>>
    /\ now = 0
    /\ token_at = 0
    /\ sleeps = 0
    /\ started = 0
    /\ task = <<>>
    /\ sem = 0
    /\ reordered = FALSE
    /\ raw = NoEnvelope
    /\ out = NoEnvelope
    /\ call = NoCall
    /\ sheet = NoSheet

GateProbe ==
    /\ pc = "probe"
    /\ probe.stage = "in"
    /\ probe' = [probe EXCEPT
                    !.stage = "out",
                    !.passes = pass_filters(LeadAt(probe.address),
                                            LocationIl(location_text), NoFilters)]
    /\ UNCHANGED <<pc, argVars, geocode_query, geocoded, searchVars, enrichVars, raw, out, exportVars>>

SpecGate == InitGate /\ [][GateProbe]_vars

----------------------------------------------------------------------------
(* The gate on addresses whose province is spelt with Turkish letters and  *)
(* on addresses no province can be parsed from.                            *)

Sanliurfa == <<"S,","a","n","l","i-","u","r","f","a">>

\* The province as it is spelt, without Turkish letters, and in capitals.
SanliurfaSpellings ==
    {Sanliurfa,
     <<"S","a","n","l","i","u","r","f","a">>,
     <<"S,","A","N","L","I","U","R","F","A">>}

\* The segments: a district, the province in three spellings, four words
\* ending in a province, a run of six digits before the province, the
\* country name, the empty segment.
FallbackSegments ==
    {Merkez, Sanliurfa, Turkiye, <<>>}
    \cup {Merkez \o <<" ">> \o Atakum \o <<" ">> \o Merkez \o <<" ">> \o p :
             p \in SanliurfaSpellings \cup {Samsun}}
    \cup {SixDigits \o <<" ">> \o Sanliurfa}

FallbackLocations == SanliurfaSpellings \cup {Samsun, <<>>}

InitFallback ==
    /\ pc = "probe"
    /\ location_text \in FallbackLocations
    /\ probe \in {[stage |-> "in", address |-> JoinSegments(segs), passes |-> FALSE] :
                    segs \in SeqsUpTo(FallbackSegments, MaxSegments)}
    /\ limit = LimitFloor
    /\ include_details = FALSE
    /\ geocode_query = NONE
    /\ geocoded = "unset"
    /\ collected = <<>>
    /\ accumulated = <<>>
    /\ next_token = NONE
    /\ page = NoPage
    /\ requests = <<>>
    /\ now = 0
    /\ token_at = 0
    /\ sleeps = 0
    /\ started = 0
    /\ task = <<>>
    /\ sem = 0
    /\ reordered = FALSE
    /\ raw = NoEnvelope
    /\ out = NoEnvelope
    /\ call = NoCall
    /\ sheet = NoSheet

SpecFallback == InitFallback /\ [][GateProbe]_vars

----------------------------------------------------------------------------
(* The resolver on its own: the province and district that                 *)
(* leads_to_sheet_rows writes for a lead, next to the verdict of the gate  *)
(* on the same lead.                                                       *)

\* The location texts the resolver is given: those of the gate, and the
\* province spelt in lower case.
ResolveLocations == GateLocations \cup {<<"s","a","m","s","u","n">>}

InitResolve ==
    /\ pc = "probe"
    /\ location_text \in ResolveLocations
    /\ probe \in {[stage |-> "in", address |-> a, il |-> NONE, ilce |-> NONE,
                   passes |-> FALSE] : a \in GateAddresses}
    /\ limit = LimitFloor
    /\ include_details = FALSE
    /\ geocode_query = NONE
    /\ geocoded = "unset"
    /\ collected = <<>>
    /\ accumulated = <<>>
    /\ next_token = NONE
    /\ page = NoPage
    /\ requests = <<>>
    /\ now = 0
    /\ token_at = 0
    /\ sleeps = 0
    /\ started = 0
    /\ task = <<>>
    /\ sem = 0
    /\ reordered = FALSE
    /\ raw = NoEnvelope
    /\ out = NoEnvelope
    /\ call = NoCall
    /\ sheet = NoSheet

ResolveProbe ==
    /\ pc = "probe"
    /\ probe.stage = "in"
    /\ LET resolved == _parse_il_ilce(probe.address, location_text)
       IN  probe' = [probe EXCEPT
                        !.stage = "out",
                        !.il = resolved[1],
                        !.ilce = resolved[2],
                        !.passes = pass_filters(LeadAt(probe.address),
                                                LocationIl(location_text), NoFilters)]
    /\ UNCHANGED <<pc, argVars, geocode_query, geocoded, searchVars, enrichVars, raw, out, exportVars>>

SpecResolve == InitResolve /\ [][ResolveProbe]_vars

----------------------------------------------------------------------------
(* The filter pipeline on its own: applied to a list of leads, and again   *)
(* to what it returned.                                                    *)

MaxLeads == 3       \* most leads of a list the pipeline is applied to

StoreCapital == <<"S","t","o","r","e">>
OperationalLower == <<"o","p","e","r","a","t","i","o","n","a","l">>

\* Another result without identifier.
RawE == [RawC EXCEPT !.name = Acme]

\* The leads of the catalogue, before and after a successful lookup, and a
\* second lead without identifier.
LeadDomain ==
    {ToLead(r) : r \in Catalogue}
    \cup {ToLead([r EXCEPT !.details = PlaceDetails(r.place_id)]) : r \in {RawA, RawB}}
    \cup {ToLead(RawE)}

\* One setting of each filter argument.
FilterChoices ==
    {NoFilters,
     [NoFilters EXCEPT !.min_rating = 40],
     [NoFilters EXCEPT !.min_user_ratings_total = 5],
     [NoFilters EXCEPT !.types_include = {StoreCapital}],
     [NoFilters EXCEPT !.types_exclude = {StoreCapital}],
     [NoFilters EXCEPT !.require_phone_or_website = TRUE],
     [NoFilters EXCEPT !.only_open_now = "true"],
     [NoFilters EXCEPT !.business_status_in = {OperationalLower}]}

InitFilter ==
    /\ pc = "probe"
    /\ location_text \in {Samsun, Malatya, SamsunTurkiye}
    /\ probe \in {[stage |-> "in", leads |-> ls, filters |-> f, dedupe_by |-> d,
                   once |-> <<>>, twice |-> <<>>] :
                     ls \in SeqsUpTo(LeadDomain, MaxLeads), f \in FilterChoices,
                     d \in DedupeModes}
    /\ limit = LimitFloor
    /\ include_details = FALSE
    /\ geocode_query = NONE
    /\ geocoded = "unset"
    /\ collected = <<>>
    /\ accumulated = <<>>
    /\ next_token = NONE
    /\ page = NoPage
    /\ requests = <<>>
    /\ now = 0
    /\ token_at = 0
    /\ sleeps = 0
    /\ started = 0
    /\ task = <<>>
    /\ sem = 0
    /\ reordered = FALSE
    /\ raw = NoEnvelope
    /\ out = NoEnvelope
    /\ call = NoCall
    /\ sheet = NoSheet

FilterProbe ==
    /\ pc = "probe"
    /\ probe.stage = "in"
    /\ LET once == FilterPipeline(probe.leads, location_text, probe.filters,
                                  probe.dedupe_by)
       IN  probe' = [probe EXCEPT
                        !.stage = "out",
                        !.once = once,
                        !.twice = FilterPipeline(once, location_text,
                                                 probe.filters, probe.dedupe_by)]
    /\ UNCHANGED <<pc, argVars, geocode_query, geocoded, searchVars, enrichVars, raw, out, exportVars>>

SpecFilter == InitFilter /\ [][FilterProbe]_vars

----------------------------------------------------------------------------
(* pass_filters on one lead, under every combination of filter arguments.  *)

\* The combinations of filter arguments: each one not supplied, supplied
\* with a value that rejects some lead, or supplied with a value that
\* demands nothing (a minimum of 0, only_open_now False).
FilterCombinations ==
    [min_rating : {NoneNum, 0, 40},
     min_user_ratings_total : {NoneNum, 5},
     types_include : {{}, {StoreCapital}},
     types_exclude : {{}, {StoreCapital}},
     require_phone_or_website : BOOLEAN,
     only_open_now : {"none", "true", "false"},
     business_status_in : {{}, {OperationalLower}}]

InitAttribute ==
    /\ pc = "probe"
    /\ location_text \in {<<>>, Samsun}
    /\ probe \in {[stage |-> "in", lead |-> x, filters |-> f, passes |-> FALSE] :
                     x \in LeadDomain, f \in FilterCombinations}
    /\ limit = LimitFloor
    /\ include_details = FALSE
    /\ geocode_query = NONE
    /\ geocoded = "unset"
    /\ collected = <<>>
    /\ accumulated = <<>>
    /\ next_token = NONE
    /\ page = NoPage
    /\ requests = <<>>
    /\ now = 0
    /\ token_at = 0
    /\ sleeps = 0
    /\ started = 0
    /\ task = <<>>
    /\ sem = 0
    /\ reordered = FALSE
    /\ raw = NoEnvelope
    /\ out = NoEnvelope
    /\ call = NoCall
    /\ sheet = NoSheet

AttributeProbe ==
    /\ pc = "probe"
    /\ probe.stage = "in"
    /\ probe' = [probe EXCEPT
                    !.stage = "out",
                    !.passes = pass_filters(probe.lead, LocationIl(location_text),
                                            probe.filters)]
    /\ UNCHANGED <<pc, argVars, geocode_query, geocoded, searchVars, enrichVars, raw, out,
                   exportVars>>

SpecAttribute == InitAttribute /\ [][AttributeProbe]_vars

----------------------------------------------------------------------------
(* The facade on its own: from a return value of search_leads to the       *)
(* result of find_business_leads.                                          *)

MaxReturned == 2    \* most results in a return value of search_leads

\* What search_leads has returned: an error envelope, or the results found.
ReturnedEnvelopes ==
    {ProviderError(st) : st \in ErrorStatuses}
    \cup {SearchSuccess(b) : b \in SeqsUpTo(Catalogue, MaxReturned)}

InitDeliver ==
    /\ pc = "returned"
    /\ location_text \in BatchLocations
    /\ raw \in ReturnedEnvelopes
    /\ limit = ClampLimit(MaxReturned)
    /\ include_details = FALSE
    /\ collected = (IF raw.error THEN <<>> ELSE raw.leads_raw)
    /\ accumulated = collected
    /\ geocode_query = LocationQuery(location_text)
    /\ geocoded = "latlng"
    /\ next_token = NONE
    /\ page = NoPage
    /\ requests = <<>>
    /\ now = 0
    /\ token_at = 0
    /\ sleeps = 0
    /\ started = 0
    /\ task = <<>>
    /\ sem = 0
    /\ reordered = FALSE
    /\ out = NoEnvelope
    /\ probe = NoProbe
    /\ call = NoCall
    /\ sheet = NoSheet

NextDeliver ==
    \/ Facade
    \/ Deliver

SpecDeliver == InitDeliver /\ [][NextDeliver]_vars

----------------------------------------------------------------------------
(* The normalisation on its own: _normalize_il_name applied to a spelling  *)
(* of a registry province, as the gate applies it to the declared province *)
(* before comparing it with the registry name.                             *)

\* The Turkish-specific lower-case letter of a Latin letter that has one.
TurkishLowerChar(c) ==
    CASE c = "i" -> "i-" [] c = "g" -> "g^" [] c = "u" -> "u:"
      [] c = "s" -> "s," [] c = "o" -> "o:" [] c = "c" -> "c,"
      [] OTHER -> c

\* The Turkish-specific capital of a Latin letter that has one, else its
\* capital.
TurkishUpperChar(c) ==
    CASE c = "i" -> "I." [] c = "g" -> "G^" [] c = "u" -> "U:"
      [] c = "s" -> "S," [] c = "o" -> "O:" [] c = "c" -> "C,"
      [] OTHER -> UpperChar(c)

\* Spellings of a registry name that differ from it only in letter case or
\* in a Turkish-specific letter in place of its Latin form: the name, in
\* capitals, capitalised, capitalised with the Turkish capital, all in
\* Turkish lower-case letters, all in Turkish capitals.
Spellings(name) ==
    {name,
     Upper(name),
     <<UpperChar(Head(name))>> \o Tail(name),
     <<TurkishUpperChar(Head(name))>> \o Tail(name),
     [k \in 1..Len(name) |-> TurkishLowerChar(name[k])],
     [k \in 1..Len(name) |-> TurkishUpperChar(name[k])]}

InitNormalize ==
    /\ pc = "probe"
    /\ location_text = <<>>
    /\ probe \in UNION {{[stage |-> "in", registry |-> name, spelling |-> sp,
                          normalized |-> NONE] : sp \in Spellings(name)} :
                        name \in {POSTAL_CODE_TO_IL[k][2] : k \in 1..Len(POSTAL_CODE_TO_IL)}}
    /\ limit = LimitFloor
    /\ include_details = FALSE
    /\ geocode_query = NONE
    /\ geocoded = "unset"
    /\ collected = <<>>
    /\ accumulated = <<>>
    /\ next_token = NONE
    /\ page = NoPage
    /\ requests = <<>>
    /\ now = 0
    /\ token_at = 0
    /\ sleeps = 0
    /\ started = 0
    /\ task = <<>>
    /\ sem = 0
    /\ reordered = FALSE
    /\ raw = NoEnvelope
    /\ out = NoEnvelope
    /\ call = NoCall
    /\ sheet = NoSheet

NormalizeProbe ==
    /\ pc = "probe"
    /\ probe.stage = "in"
    /\ probe' = [probe EXCEPT !.stage = "out",
                              !.normalized = _normalize_il_name(probe.spelling)]
    /\ UNCHANGED <<pc, argVars, geocode_query, geocoded, searchVars, enrichVars, raw, out, exportVars>>

SpecNormalize == InitNormalize /\ [][NormalizeProbe]_vars

----------------------------------------------------------------------------
(* Properties.                                                             *)

\* The province the code derives from an address by its postal code, or NONE.
PostalProvince(address) ==
    LET postal_code == _extract_postal_code_from_address(address)
    IN  IF Truthy(postal_code) THEN _get_il_from_postal_code(postal_code) ELSE NONE

HasPostalCode(address) == Truthy(_extract_postal_code_from_address(address))

\* C1: with a declared province, the gate rejects a lead whose address has a
\* postal code of a known province that differs, after normalisation, from
\* the declared one, and a lead whose address has no postal code and whose
\* province parsed from the address alone is non-empty and differs from it.
C1_GateRejectsOtherProvince ==
    (/\ probe.stage = "out"
     /\ Truthy(LocationIl(location_text))
     /\ Truthy(probe.address))
    => LET declared == _normalize_il_name(LocationIl(location_text))
           P == PostalProvince(probe.address)
           parsed == _parse_il_from_address_only(probe.address)
       IN  /\ (Truthy(P) /\ _normalize_il_name(P) # declared) => ~probe.passes
           /\ (/\ ~HasPostalCode(probe.address)
               /\ Truthy(parsed)
               /\ _normalize_il_name(parsed) # declared) => ~probe.passes

\* 'Merkez, Malatya' against 'Samsun' has been rejected.
C1_Witness ==
    /\ probe.stage = "out"
    /\ location_text = Samsun
    /\ probe.address = MerkezMalatya
    /\ ~probe.passes

\* The address confirms the declared province: by its postal code, else by
\* the province parsed from it, else by containing the declared province.
ConfirmsProvince(address, location_il) ==
    /\ Truthy(address)
    /\ LET declared == _normalize_il_name(location_il)
           parsed == _parse_il_from_address_only(address)
       IN  IF HasPostalCode(address)
           THEN Truthy(PostalProvince(address))
                /\ _normalize_il_name(PostalProvince(address)) = declared
           ELSE IF Truthy(parsed)
                THEN _normalize_il_name(parsed) = declared
                ELSE Contains(Lower(address), declared)

\* C2: with a declared province, every lead find_business_leads returns has
\* an address that confirms the declared province; a lead with a missing or
\* empty address is not returned.
C2_OutputConfirmsProvince ==
    (pc = "done" /\ out.has_leads /\ Truthy(LocationIl(location_text)))
    => \A k \in 1..Len(out.leads) :
           ConfirmsProvince(out.leads[k].formatted_address, LocationIl(location_text))

InFlight == {i \in 1..Len(task) : task[i] = "inflight"}

\* C3: at every instant of the enrichment at most 5 place_details lookups
\* are in flight.
C3_AtMostFiveInFlight == Cardinality(InFlight) <= 5

\* Five lookups are in flight and a sixth task waits for a slot.
C3_Witness ==
    /\ Cardinality(InFlight) = 5
    /\ \E i \in 1..Len(task) : task[i] = "waiting"

\* C4: a failing lookup never aborts the batch or the run: the result stays
\* in place without a details block, the other results keep what they had or
\* got, and search_leads and the facade return success envelopes with every
\* collected result, even when every lookup failed.
C4_FailedLookupsAreSwallowed ==
    /\ pc # "raised"
    /\ Len(collected) = Len(accumulated)
    /\ \A i \in 1..Len(task) :
          /\ task[i] = "failed" => collected[i] = accumulated[i]
          /\ task[i] = "ok" =>
                collected[i] = [accumulated[i] EXCEPT
                                   !.details = PlaceDetails(accumulated[i].place_id)]
          /\ task[i] \notin {"ok", "failed"} => collected[i] = accumulated[i]
    /\ pc \in {"returned", "done"} =>
          /\ raw.returned /\ ~raw.error /\ raw.has_leads_raw
          /\ raw.leads_raw = collected
          /\ raw.total = Len(accumulated)
    /\ pc = "done" => out.returned /\ ~out.error /\ out.has_leads

\* A batch of several results whose lookups all failed has been returned.
C4_Witness ==
    /\ pc = "done"
    /\ Len(task) >= 2
    /\ \A i \in 1..Len(task) : task[i] = "failed"
    /\ raw.leads_raw = accumulated
    /\ out.has_leads

\* The fields of a raw result or a lead that enrichment does not touch.
Identity(x) ==
    <<x.name, x.formatted_address, x.place_id, x.types, x.rating,
      x.user_ratings_total, x.business_status>>

\* xs is an order-preserving subsequence of ys, comparing by Identity.
RECURSIVE IsSubsequence(_, _)
IsSubsequence(xs, ys) ==
    IF xs = <<>> THEN TRUE
    ELSE IF ys = <<>> THEN FALSE
    ELSE IF Identity(Head(xs)) = Identity(Head(ys))
         THEN IsSubsequence(Tail(xs), Tail(ys))
         ELSE IsSubsequence(xs, Tail(ys))

\* The accumulated results, each with the details its own lookup brought.
EnrichedInPlace ==
    [i \in 1..Len(accumulated) |->
        IF i <= Len(task) /\ task[i] = "ok"
        THEN [accumulated[i] EXCEPT !.details = PlaceDetails(accumulated[i].place_id)]
        ELSE accumulated[i]]

\* C5: the leads returned are an order-preserving subsequence of the results
\* in the order the paged search accumulated them, and are what the filter
\* pipeline makes of those results with each lookup's outcome, whatever the
\* order in which the lookups completed.
C5_OrderIsSearchOrder ==
    (pc = "done" /\ out.has_leads)
    => /\ IsSubsequence(out.leads, accumulated)
       /\ out.leads = FilterPipeline(LeadsOut(EnrichedInPlace), location_text,
                                     out.filters, out.dedupe_by)

\* Two leads or more have been returned after lookups completed out of
\* list order.
C5_Witness ==
    /\ pc = "done"
    /\ reordered
    /\ out.has_leads
    /\ Len(out.leads) >= 2

\* The positions at which the paging loop is still running.
InLoop == pc \in {"loop", "text_search", "accumulate", "sleep"}

\* C6: the accumulator never holds more than limit results; once it holds
\* limit, whatever is left of the page is dropped and no further page is
\* requested, and the total reported is the accumulated count, limit itself.
C6_AccumulatorCappedAtLimit ==
    /\ Len(collected) <= limit
    /\ (requests # <<>> /\ Len(collected) >= limit) => pc \notin {"loop", "text_search", "sleep"}
    /\ page.dropped > 0 => (Len(collected) = limit /\ ~InLoop)
    /\ (raw.returned /\ ~raw.error) =>
          /\ raw.total = Len(collected)
          /\ raw.leads_raw = collected
          /\ page.dropped > 0 => raw.total = limit

\* After a second page that filled the accumulator half way through, the
\* search has returned limit results.
C6_Witness ==
    /\ Len(requests) = 2
    /\ page.dropped > 0
    /\ raw.returned
    /\ raw.total = limit
    /\ limit > 1

\* C7: a request that carries a token goes out no sooner than the inter-page
\* delay after the token was received, and a delay is made only when a
\* further page is then requested: the sleeps number one less than the
\* requests once the loop has left a page behind, and after a sleep the
\* loop is below limit, so that it requests again.
C7_DelayBeforeEachTokenRequest ==
    /\ \A k \in 1..Len(requests) :
          /\ Truthy(requests[k].pagetoken) =>
                requests[k].at - requests[k].token_at >= InterPageDelay
          /\ k > 1 => Truthy(requests[k].pagetoken)
    /\ IF requests = <<>> THEN sleeps = 0
       ELSE IF pc = "loop" THEN sleeps = Len(requests)
       ELSE sleeps = Len(requests) - 1
    /\ pc = "loop" => Len(collected) < limit

\* A second page has been requested, after one delay, and the loop is over.
C7_Witness ==
    /\ Len(requests) = 2
    /\ Truthy(requests[2].pagetoken)
    /\ sleeps = 1
    /\ pc = "after_loop"

\* C8: once a text_search response has a status other than OK and
\* ZERO_RESULTS, the run is over: search_leads has returned an error envelope
\* whose message carries the status, no page is requested and no lookup
\* issued after it, and the facade returns that envelope, without leads.
C8_ProviderErrorEndsRun ==
    page.status \notin {"", "OK", "ZERO_RESULTS"}
    => /\ pc \in {"returned", "done"}
       /\ raw.returned /\ raw.error
       /\ raw.message.value = <<page.status>>
       /\ ~raw.has_leads_raw
       /\ task = <<>> /\ started = 0
       /\ pc = "done" => (out = raw /\ ~out.has_leads)

\* The second page came back with an error status and the facade returned.
C8_Witness ==
    /\ pc = "done"
    /\ Len(requests) = 2
    /\ page.status = "OVER_QUERY_LIMIT"
    /\ out.error

\* C9: when geocoding gives no usable result, search_leads returns an error
\* envelope whose message carries the location text as given, not the text
\* sent to the geocoder; no text search and no lookup is issued, and the
\* facade returns the envelope as it is.
C9_GeocodeFailureEchoesInput ==
    geocoded = "None"
    => /\ pc \in {"returned", "done"}
       /\ raw.returned /\ raw.error
       /\ raw.message.value = location_text
       /\ raw.location_input = location_text
       /\ (geocode_query # location_text => raw.message.value # geocode_query)
       /\ requests = <<>>
       /\ task = <<>> /\ started = 0
       /\ pc = "done" => (out = raw /\ ~out.has_leads)

\* Geocoding failed for a text that was sent with the country appended.
C9_Witness ==
    /\ geocoded = "None"
    /\ pc = "done"
    /\ location_text = Samsun
    /\ geocode_query = SamsunTurkiye

\* C10: the filter pipeline applied to its own output returns that output.
C10_PipelineIdempotent ==
    probe.stage = "out" => probe.twice = probe.once

\* The pipeline dropped a lead and kept two.
C10_Witness ==
    /\ probe.stage = "out"
    /\ Len(probe.once) >= 2
    /\ Len(probe.once) < Len(probe.leads)

\* Two leads have the same dedup key: the same place identifier (a missing
\* identifier is a key like any other), or in name_address mode the same name
\* and the same address once case and surrounding whitespace are put aside.
SameKey(x, y, mode) ==
    IF mode = "name_address"
    THEN /\ Lower(Strip(IF x.name = NONE THEN <<>> ELSE x.name))
              = Lower(Strip(IF y.name = NONE THEN <<>> ELSE y.name))
         /\ Lower(Strip(IF x.formatted_address = NONE THEN <<>> ELSE x.formatted_address))
              = Lower(Strip(IF y.formatted_address = NONE THEN <<>> ELSE y.formatted_address))
    ELSE x.place_id = y.place_id

\* The elements of s at the positions in keep, in the order of s.
RECURSIVE KeepAt(_, _, _)
KeepAt(s, keep, i) ==
    IF i > Len(s) THEN <<>>
    ELSE (IF i \in keep THEN <<s[i]>> ELSE <<>>) \o KeepAt(s, keep, i + 1)

\* The positions of s that hold the first lead of their key.
FirstOfKey(s, mode) ==
    {i \in 1..Len(s) : \A j \in 1..(i - 1) : ~SameKey(s[j], s[i], mode)}

\* C11: the dedup keeps exactly the first lead of each key, in input order:
\* its output is the input without every lead that has the key of an earlier
\* one, and no two leads of the output have the same key.
C11_DedupeKeepsFirstOfEachKey ==
    probe.stage = "out" =>
        LET filtered == FilterLeads(probe.leads, LocationIl(location_text), probe.filters)
        IN  /\ probe.once = KeepAt(filtered, FirstOfKey(filtered, probe.dedupe_by), 1)
            /\ \A i, j \in 1..Len(probe.once) :
                   i # j => ~SameKey(probe.once[i], probe.once[j], probe.dedupe_by)

\* A later lead that spells the name of the first differently is dropped, and
\* the lead between them is kept.
C11_Witness ==
    /\ probe.stage = "out"
    /\ probe.dedupe_by = "name_address"
    /\ probe.filters = NoFilters
    /\ location_text = Samsun
    /\ probe.leads = <<ToLead(RawA), ToLead(RawD), ToLead(RawA2)>>
    /\ probe.once = <<ToLead(RawA), ToLead(RawD)>>

\* The text of a value that may be missing.
Text(x) == IF x = NONE THEN <<>> ELSE x

\* C12: for an address with a postal code that maps to a province, the
\* resolver returns that province, up to normalisation, whatever the location
\* text is.
C12_PostalCodeDecidesProvince ==
    (probe.stage = "out" /\ HasPostalCode(probe.address)
        /\ Truthy(PostalProvince(probe.address)))
    => _normalize_il_name(Text(probe.il)) = _normalize_il_name(PostalProvince(probe.address))

\* The address ends in '<district>, <postal code> <province>': the last
\* segment is the postal code of the address followed by a name, the segment
\* before it a name of one to three words.
EndsInDistrictPostalProvince(address) ==
    /\ Truthy(address)
    /\ LET parts == StripParts(address, ",")
           n == Len(parts)
       IN  /\ n >= 2
           /\ FiveDigitsAt(parts[n], 1)
           /\ Len(parts[n]) > 6
           /\ parts[n][6] = " "
           /\ ~Contains(parts[n], <<"/">>)
           /\ _extract_postal_code_from_address(address) = SubSeq(parts[n], 1, 5)
           /\ parts[n - 1] # <<>>
           /\ ~HasFiveDigits(parts[n - 1])
           /\ TokenCount(parts[n - 1]) <= 3

DistrictOf(address) ==
    LET parts == StripParts(address, ",") IN parts[Len(parts) - 1]

C14_UnknownPostalCodeRejected ==
    (/\ probe.stage = "out"
     /\ Truthy(LocationIl(location_text))
     /\ Truthy(probe.address)
     /\ HasPostalCode(probe.address)
     /\ ~Truthy(PostalProvince(probe.address)))
    => ~probe.passes

\* 'Atakum, 00100 Samsun' for 'Samsun' has been rejected.
C14_Witness ==
    /\ probe.stage = "out"
    /\ location_text = Samsun
    /\ probe.address = Atakum \o <<",", " ">> \o Postal00 \o <<" ">> \o Samsun
    /\ Contains(Lower(probe.address), _normalize_il_name(LocationIl(location_text)))
    /\ ~probe.passes

\* Neither text occurs in the other.
Unrelated(a, b) == ~Contains(a, b) /\ ~Contains(b, a)

\* C15: with a declared province, the resolver returns the declared province
\* and no district when the postal code of the address maps to another
\* province, and when the address has no postal code and the province the
\* resolver parses from it is non-empty and unrelated to the declared one.
C15_DeclaredProvinceWinsOnMismatch ==
    (/\ probe.stage = "out"
     /\ Truthy(LocationIl(location_text))
     /\ Truthy(probe.address))
    => LET declared == LocationIl(location_text)
           P == PostalProvince(probe.address)
           parsed_il == ParsedIlIlce(probe.address)[1]
       IN  /\ (Truthy(P) /\ _normalize_il_name(P) # _normalize_il_name(declared))
                  => (probe.il = declared /\ ~Truthy(probe.ilce))
           /\ (/\ ~HasPostalCode(probe.address)
               /\ Truthy(parsed_il)
               /\ Unrelated(_normalize_il_name(parsed_il), _normalize_il_name(declared)))
                  => (probe.il = declared /\ ~Truthy(probe.ilce))

\* 'Atakum, 44000 Samsun', with the postal code of Malatya, has given Samsun
\* and no district for 'Samsun'.
C15_Witness ==
    /\ probe.stage = "out"
    /\ location_text = Samsun
    /\ probe.address = Atakum \o <<",", " ">> \o Postal44 \o <<" ">> \o Samsun
    /\ probe.il = Samsun
    /\ probe.ilce = NONE

\* C16: when the export fails, find_business_leads still returns the success
\* envelope with the whole deduplicated list and its total; the failure
\* shows only as the annotation google_sheets, with ok false and the error.
C16_ExportFailureIsAnnotation ==
    sheet.error # ""
    => /\ pc = "delivered"
       /\ out.returned /\ ~out.error /\ out.has_leads
       /\ out.leads = FilterPipeline(LeadsOut(raw.leads_raw), location_text,
                                     out.filters, out.dedupe_by)
       /\ out.total = Len(out.leads)
       /\ out.google_sheets.present
       /\ ~out.google_sheets.ok
       /\ out.google_sheets.error = sheet.error

\* An export without credentials has failed and two leads were returned.
C16_Witness ==
    /\ pc = "delivered"
    /\ sheet.error = "no_credentials"
    /\ sheet.attempts = 1
    /\ Len(out.leads) = 2
    /\ out.total = 2
    /\ ~out.google_sheets.ok

\* C19: when the export is enabled by the argument or by the environment,
\* a call that returns a result without error has attempted the export,
\* in either output format.
C19_ExportAttemptedWhenEnabled ==
    (/\ pc = "delivered"
     /\ ~out.error
     /\ (call.export_to_google_sheets \/ AutoExport(call.env)))
    => sheet.attempts = 1

\* Two sets of category tags overlap, case put aside.
TagsOverlap(A, B) == \E a \in A, b \in B : Lower(a) = Lower(b)

\* The lead satisfies every filter that is supplied.  A numeric minimum is
\* supplied when it is not None, a list when it is not empty, the contact
\* and open-now requirements when they are True.
SatisfiesSupplied(x, f) ==
    /\ f.min_rating # NoneNum => (x.rating # NoneNum /\ x.rating >= f.min_rating)
    /\ f.min_user_ratings_total # NoneNum =>
           (x.user_ratings_total # NoneNum
            /\ x.user_ratings_total >= f.min_user_ratings_total)
    /\ f.types_include # {} => TagsOverlap(x.types, f.types_include)
    /\ f.types_exclude # {} => ~TagsOverlap(x.types, f.types_exclude)
    /\ f.require_phone_or_website => (Text(x.phone) # <<>> \/ Text(x.website) # <<>>)
    /\ f.only_open_now = "true" => x.open_now = "true"
    /\ f.business_status_in # {} =>
           \E st \in f.business_status_in : Lower(st) = Lower(Text(x.business_status))

\* C18: a lead the gate lets through passes pass_filters iff it satisfies
\* every supplied filter; with no filter supplied it passes, and a supplied
\* numeric minimum rejects a lead whose value is missing.
C18_PassesIffEverySuppliedFilterHolds ==
    (probe.stage = "out"
        /\ GeoGate(LocationIl(location_text), probe.lead.formatted_address))
    => /\ probe.passes <=> SatisfiesSupplied(probe.lead, probe.filters)
       /\ (/\ probe.filters.min_rating = NoneNum
           /\ probe.filters.min_user_ratings_total = NoneNum
           /\ probe.filters.types_include = {}
           /\ probe.filters.types_exclude = {}
           /\ ~probe.filters.require_phone_or_website
           /\ probe.filters.only_open_now # "true"
           /\ probe.filters.business_status_in = {}) => probe.passes
       /\ (probe.filters.min_rating # NoneNum /\ probe.lead.rating = NoneNum)
              => ~probe.passes
       /\ (/\ probe.filters.min_user_ratings_total # NoneNum
           /\ probe.lead.user_ratings_total = NoneNum) => ~probe.passes

\* A lead without rating has been rejected by a minimum rating of 0, the
\* only filter supplied.
C18_Witness ==
    /\ probe.stage = "out"
    /\ location_text = <<>>
    /\ probe.lead = ToLead(RawB)
    /\ probe.filters = [NoFilters EXCEPT !.min_rating = 0]
    /\ ~probe.passes

\* C17: the number of text_search requests of a run is bounded by its limit,
\* whatever the provider answers.
C17_RequestsBoundedByLimit ==
    Len(requests) <= limit

\* The last response is being or has been processed.
LastResponse == page.status # ""

\* C20: after a response with status OK the loop goes on to a further page
\* iff the response carried a token and the accumulator is below limit; a
\* ZERO_RESULTS status or a missing token ends the paging without error, and
\* enrichment gets the results accumulated so far.
C20_PagingContinuesIffTokenAndBelowLimit ==
    /\ pc = "sleep" =>
          /\ page.status = "OK"
          /\ Truthy(next_token)
          /\ Len(collected) < limit
    /\ (pc = "after_loop" /\ LastResponse) =>
          /\ ~(page.status = "OK" /\ Truthy(next_token) /\ Len(collected) < limit)
          /\ ~raw.returned
          /\ collected = accumulated
    /\ (pc = "loop" /\ LastResponse) =>
          /\ page.status = "OK" /\ Truthy(next_token) /\ Len(collected) < limit
          /\ requests[Len(requests)].at + InterPageDelay <= now
    /\ (pc = "text_search" /\ Len(requests) > 1) =>
          /\ requests[Len(requests)].pagetoken = next_token
          /\ Truthy(next_token)
          /\ Len(collected) < limit
    /\ (pc \in {"returned", "done"} /\ page.status \in {"OK", "ZERO_RESULTS"}) =>
          /\ ~raw.error
          /\ raw.leads_raw = accumulated

\* A second page has been requested with the token of the first, it came
\* back with ZERO_RESULTS, and the result of the first page went on.
C20_Witness ==
    /\ pc = "returned"
    /\ Len(requests) = 2
    /\ Truthy(requests[2].pagetoken)
    /\ page.status = "ZERO_RESULTS"
    /\ Len(accumulated) = 1
    /\ raw.leads_raw = accumulated

\* C21: the province the resolver returns is never the country name and
\* never contains a five-digit postal code, for every address and every
\* location text, an absent one included.
C21_ProvinceWithoutCountryAndPostalCode ==
    probe.stage = "out"
    => /\ _normalize_il_name(Text(probe.il)) \notin {_normalize_il_name(Turkiye), turkey}
       /\ ~HasFiveDigits(Text(probe.il))

\* A text with the country names and the five-digit runs taken out.
WithoutCountryAndPostalCode(s) ==
    Strip(SubFiveDigits(Strip(Replace(Replace(s, Turkiye, <<>>), turkey, <<>>))))

\* C22: with a declared province and no mismatch (the postal code maps to
\* the declared province, or there is no postal code and the parsed and the
\* declared province are related), the resolver returns the province as the
\* address spells it, with or without its postal code, and the parsed
\* district.
C22_ParsedProvinceStandsWithoutMismatch ==
    (/\ probe.stage = "out"
     /\ Truthy(LocationIl(location_text))
     /\ Truthy(probe.address)
     /\ LET declared == _normalize_il_name(LocationIl(location_text))
            P == PostalProvince(probe.address)
            parsed_il == ParsedIlIlce(probe.address)[1]
        IN  \/ (Truthy(P) /\ _normalize_il_name(P) = declared)
            \/ (/\ ~HasPostalCode(probe.address)
                /\ Truthy(parsed_il)
                /\ ~Unrelated(_normalize_il_name(parsed_il), declared)))
    => LET parsed == ParsedIlIlce(probe.address)
       IN  /\ probe.il \in {parsed[1], WithoutCountryAndPostalCode(parsed[1])}
           /\ probe.ilce = parsed[2]

\* C23: whenever the resolver returns a district for an address whose postal
\* code maps to a province, the province it returns is that province, up to
\* normalisation.
C23_DistrictOnlyWithPostalProvince ==
    (/\ probe.stage = "out"
     /\ Truthy(probe.ilce)
     /\ Truthy(probe.address)
     /\ Truthy(PostalProvince(probe.address)))
    => _normalize_il_name(Text(probe.il))
           = _normalize_il_name(PostalProvince(probe.address))


\* Lower case with every Turkish letter mapped to its unaccented Latin form.
Fold(s) ==
    Replace(Replace(Replace(Replace(Replace(Replace(Replace(
        Lower(s),
        <<".^">>, <<>>), <<"i-">>, <<"i">>), <<"g^">>, <<"g">>), <<"u:">>, <<"u">>),
        <<"s,">>, <<"s">>), <<"o:">>, <<"o">>), <<"c,">>, <<"c">>)

\* The gate is active, the address has no postal code and no province can
\* be parsed from it.
FallbackCase ==
    /\ probe.stage = "out"
    /\ Truthy(LocationIl(location_text))
    /\ Truthy(probe.address)
    /\ ~HasPostalCode(probe.address)
    /\ ~Truthy(_parse_il_from_address_only(probe.address))

\* C24: in the fallback case the lead passes iff the declared province
\* occurs in the full address text under a comparison that ignores letter
\* case and Turkish diacritics on both sides.
C24_FallbackFoldsBothSides ==
    FallbackCase
    => (probe.passes <=> Contains(Fold(probe.address),
                                  Fold(LocationIl(location_text))))


\* C25: every spelling of a registry province that differs from the registry
\* name only in letter case or in Turkish-specific letters normalises to
\* what the registry name normalises to.
C25_SpellingsNormalizeToRegistryName ==
    probe.stage = "out"
    => probe.normalized = _normalize_il_name(probe.registry)


\* Lead i of the probed list passes the gate and the attribute filters.
PassesAt(i) ==
    pass_filters(probe.leads[i], LocationIl(location_text), probe.filters)

\* C26: the dedup runs after the gate and the attribute filters: a lead
\* that passes them and has the key of no earlier lead that passes them is
\* emitted, whatever rejected leads of the same key come before it.
C26_RejectedLeadClaimsNoKey ==
    probe.stage = "out"
    => \A i \in 1..Len(probe.leads) :
         (/\ PassesAt(i)
          /\ \A j \in 1..(i - 1) :
               PassesAt(j) => ~SameKey(probe.leads[j], probe.leads[i], probe.dedupe_by))
         => \E k \in 1..Len(probe.once) : probe.once[k] = probe.leads[i]

\* The first place without details is rejected for having neither phone nor
\* website; the same place with its details comes second and is emitted.
C26_Witness ==
    /\ probe.stage = "out"
    /\ location_text = Samsun
    /\ probe.dedupe_by = "place_id"
    /\ probe.filters = [NoFilters EXCEPT !.require_phone_or_website = TRUE]
    /\ probe.leads = <<ToLead(RawA),
                       ToLead([RawA EXCEPT !.details = PlaceDetails(RawA.place_id)])>>
    /\ probe.once = <<ToLead([RawA EXCEPT !.details = PlaceDetails(RawA.place_id)])>>


\* What one step of the enrichment may do to task i and to result i.
LookupStepAt(i) ==
    LET has_id == Truthy(collected[i].place_id)
    IN  \* a task that has ended stays as it ended: no second lookup
        /\ TaskEnded(i) => task'[i] = task[i]
        \* a lookup is sent only for a result with an identifier, once, and
        \* takes a slot
        /\ (task'[i] = "inflight" /\ task[i] # "inflight")
              => has_id /\ task[i] \in {"new", "waiting"} /\ sem' = sem - 1
        \* a result without identifier is skipped at its first step, never
        \* waits, and leaves the semaphore alone
        /\ ~has_id => /\ task'[i] \in {"new", "skipped"}
                      /\ task'[i] # task[i] => sem' = sem
        \* the result changes only when its own lookup succeeds, and gets
        \* the details of its own identifier
        /\ collected'[i] # collected[i]
              => /\ task[i] = "inflight" /\ task'[i] = "ok"
                 /\ collected'[i] = [collected[i] EXCEPT
                                        !.details = PlaceDetails(collected[i].place_id)]
        /\ (task[i] = "inflight" /\ task'[i] = "ok")
              => collected'[i].details = PlaceDetails(collected[i].place_id)

LookupStep ==
    /\ pc = "gather" =>
          /\ Len(task') = Len(task) /\ Len(collected') = Len(collected)
          /\ \A i \in 1..Len(task) : LookupStepAt(i)
    \* when the batch returns every result with an identifier has had its
    \* lookup and every other one has been skipped
    /\ (pc = "gather" /\ pc' = "returned") =>
          \A i \in 1..Len(task) :
             IF Truthy(collected[i].place_id)
             THEN task[i] \in {"ok", "failed"}
             ELSE task[i] = "skipped"

\* C27: in one enrichment batch each result with an identifier gets exactly
\* one detail lookup, with no retry after a failure; each result without
\* identifier gets none and never takes a slot of the semaphore; and the
\* details of a successful lookup go only to the result the lookup was
\* sent for.
C27_OneLookupPerIdentifiedResult == [][LookupStep]_vars

\* A batch has been returned in which the lookup of the second result
\* succeeded, that of the first failed, and a result without identifier was
\* skipped: only the second result carries details.
C27_Witness ==
    /\ pc = "returned"
    /\ Len(task) = 3
    /\ task = <<"failed", "ok", "skipped">>
    /\ collected[1] = accumulated[1]
    /\ collected[2].details = PlaceDetails(accumulated[2].place_id)
    /\ collected[2].details # accumulated[2].details
    /\ collected[3] = accumulated[3]


\* C28: for the location text 'Samsun, Türkiye' the declared province is
\* 'Samsun', so the gate is active and decides on every lead as it does for
\* the location text 'Samsun'.
C28_CountrySuffixKeepsProvince ==
    (probe.stage = "out" /\ location_text = Samsun \o <<",", " ">> \o Turkiye)
    => /\ LocationIl(location_text) = Samsun
       /\ probe.passes = pass_filters(LeadAt(probe.address), Samsun, NoFilters)


\* The positions of the probed list whose lead passes the filters and has no
\* place_id.
PassingWithoutId == {i \in 1..Len(probe.leads) : PassesAt(i) /\ probe.leads[i].place_id = NONE}

\* C29: in place_id mode the output holds at most one lead per identifier
\* value, a missing identifier counting as one value: of the filtered leads
\* without place_id the first in input order is emitted and no other.
C29_MissingIdIsOneSharedKey ==
    (probe.stage = "out" /\ probe.dedupe_by = "place_id")
    => /\ \A k, l \in 1..Len(probe.once) :
             probe.once[k].place_id = probe.once[l].place_id => k = l
       /\ PassingWithoutId # {} =>
             LET first == CHOOSE i \in PassingWithoutId :
                              \A j \in PassingWithoutId : i <= j
             IN  \A k \in 1..Len(probe.once) :
                    probe.once[k].place_id = NONE => probe.once[k] = probe.leads[first]
       /\ PassingWithoutId # {} =>
             \E k \in 1..Len(probe.once) : probe.once[k].place_id = NONE

\* Two different leads without place_id went in; the first came out alone.
C29_Witness ==
    /\ probe.stage = "out"
    /\ probe.dedupe_by = "place_id"
    /\ probe.filters = NoFilters
    /\ probe.leads = <<ToLead(RawC), ToLead(RawE)>>
    /\ ToLead(RawC) # ToLead(RawE)
    /\ probe.once = <<ToLead(RawC)>>


\* C30: every slot a lookup took is given back when the lookup ends, by
\* success, by another status or by an exception: during the batch the free
\* slots and the lookups in flight add up to 5, and a batch that has begun
\* ends with search_leads returning and all 5 slots free.
C30_SlotsReleasedAndBatchCompletes ==
    /\ [](pc = "gather" => sem + Cardinality(InFlight) = SemaphoreSize)
    /\ (pc = "gather") ~> (pc = "returned" /\ sem = SemaphoreSize)

\* A batch of six results with identifiers has returned with all 5 slots
\* free, after lookups that succeeded and lookups that failed.
C30_Witness ==
    /\ pc = "returned"
    /\ Len(task) = 6
    /\ \A i \in 1..6 : Truthy(collected[i].place_id)
    /\ \E i \in 1..6 : task[i] = "failed"
    /\ \E i \in 1..6 : task[i] = "ok"
    /\ sem = SemaphoreSize

====
